---- MODULE Spec2Model ----
(***************************************************************************)
(* BizSight: the reactive data store (DataProvider), its bulk import and   *)
(* delete operations, the data-management page that drives them, and the   *)
(* CSV codec.                                                              *)
(*                                                                         *)
(* Strings are sequences of atoms.  An atom is one character (a comma, a   *)
(* double quote, a line feed, a carriage return, a space, a digit, a       *)
(* letter) or, for field names and labels, a whole word of letters that    *)
(* the codec never looks inside ("source", "Shop").  Words are only ever   *)
(* written whole, so two strings are equal exactly when their atom         *)
(* sequences are equal.                                                    *)
(***************************************************************************)
EXTENDS Integers, Sequences, FiniteSets, TLC

COMMA == ","
QUOTE == "\""
LF    == "\n"
CR    == "\r"
SP    == " "

\* The characters String.prototype.trim removes, as far as they occur here.
WhiteSpace == {SP, CR, LF}

----------------------------------------------------------------------------
(* JavaScript string primitives used by the codec                          *)

Includes(s, ch) == \E i \in 1..Len(s) : s[i] = ch

StartsWith(s, ch) == Len(s) > 0 /\ s[1] = ch

EndsWith(s, ch) == Len(s) > 0 /\ s[Len(s)] = ch

\* s.trim()
Trim(s) ==
  LET keep == {i \in 1..Len(s) : s[i] \notin WhiteSpace}
  IN IF keep = {} THEN <<>>
     ELSE SubSeq(s, CHOOSE i \in keep : \A j \in keep : i <= j,
                    CHOOSE i \in keep : \A j \in keep : i >= j)

\* The pieces of s between the one-atom separators at the positions seps.
Pieces(s, seps) ==
  LET n == Cardinality(seps)
      At(j) == CHOOSE p \in seps : Cardinality({q \in seps : q <= p}) = j
  IN [j \in 1..(n + 1) |->
        SubSeq(s, (IF j = 1 THEN 0 ELSE At(j - 1)) + 1,
                  (IF j = n + 1 THEN Len(s) + 1 ELSE At(j)) - 1)]

\* s.split(/\r?\n/): a carriage return right before the line feed belongs
\* to the separator.
SplitLines(s) ==
  LET raw == Pieces(s, {i \in 1..Len(s) : s[i] = LF})
  IN [j \in 1..Len(raw) |->
        IF j < Len(raw) /\ EndsWith(raw[j], CR)
        THEN SubSeq(raw[j], 1, Len(raw[j]) - 1)
        ELSE raw[j]]

\* line.split(/,(?=(?:(?:[^"]*"){2})*[^"]*$)/): a comma separates when an
\* even number of double quotes follows it up to the end of the line.
CsvSplitRegex(line) ==
  Pieces(line, {i \in 1..Len(line) :
                  /\ line[i] = COMMA
                  /\ Cardinality({j \in (i + 1)..Len(line) : line[j] = QUOTE}) % 2 = 0})

\* s.replace(/"/g, '""')
RECURSIVE DoubleQuotes(_)
DoubleQuotes(s) ==
  IF s = <<>> THEN <<>>
  ELSE (IF s[1] = QUOTE THEN <<QUOTE, QUOTE>> ELSE <<s[1]>>) \o DoubleQuotes(Tail(s))

\* s.replace(/""/g, '"'): pairs are matched left to right, not overlapping.
RECURSIVE CollapseQuotes(_)
CollapseQuotes(s) ==
  IF s = <<>> THEN <<>>
  ELSE IF Len(s) >= 2 /\ s[1] = QUOTE /\ s[2] = QUOTE
       THEN <<QUOTE>> \o CollapseQuotes(SubSeq(s, 3, Len(s)))
       ELSE <<s[1]>> \o CollapseQuotes(Tail(s))

\* s.replace(/^"|"$/g, ''): one leading and one trailing double quote go.
StripHeaderQuotes(s) ==
  LET a == IF StartsWith(s, QUOTE) THEN Tail(s) ELSE s
  IN IF EndsWith(a, QUOTE) THEN SubSeq(a, 1, Len(a) - 1) ELSE a

\* parts.join(sep)
RECURSIVE Join(_, _)
Join(parts, sep) ==
  IF parts = <<>> THEN <<>>
  ELSE IF Len(parts) = 1 THEN parts[1]
       ELSE parts[1] \o <<sep>> \o Join(Tail(parts), sep)

----------------------------------------------------------------------------
(* The CSV codec                                                           *)

\* The value a record has no own property for (undefined), and null.
Undefined == <<"undefined", "undefined">>
Null      == <<"null", "null">>

\* row[header]
Get(row, key) == IF key \in DOMAIN row THEN row[key] ELSE Undefined

\* An escape that looks for commas and newlines and not for double quotes.
escapeCSVValueCommaOnly(value) ==
  IF value = Null \/ value = Undefined THEN <<>>
  ELSE IF Includes(value, COMMA) \/ Includes(value, LF)
       THEN <<QUOTE>> \o DoubleQuotes(value) \o <<QUOTE>>
       ELSE value

escapeCSVValue(value) ==
  IF value = Null \/ value = Undefined THEN <<>>
  ELSE IF Includes(value, COMMA) \/ Includes(value, LF) \/ Includes(value, QUOTE)
       THEN <<QUOTE>> \o DoubleQuotes(value) \o <<QUOTE>>
       ELSE value

convertToCSV(data, headers) ==
  LET headerRow == Join([i \in 1..Len(headers) |-> escapeCSVValue(headers[i])], COMMA)
      dataRow(row) ==
        Join([i \in 1..Len(headers) |-> escapeCSVValue(Get(row, headers[i]))], COMMA)
  IN Join(<<headerRow>> \o [r \in 1..Len(data) |-> dataRow(data[r])], LF)

\* The field of a data line after trimming, unwrapping and unescaping.
ParseField(field) ==
  LET t == Trim(field)
      u == IF StartsWith(t, QUOTE) /\ EndsWith(t, QUOTE)
           THEN (IF Len(t) = 1 THEN t ELSE SubSeq(t, 2, Len(t) - 1))
           ELSE t
  IN CollapseQuotes(u)

\* headers.forEach((header, index) => record[header] = values[index])
MakeRecord(headers, values) ==
  [h \in {headers[i] : i \in 1..Len(headers)} |->
     values[CHOOSE i \in 1..Len(headers) :
              headers[i] = h /\ \A j \in 1..Len(headers) : headers[j] = h => j <= i]]

RECURSIVE ParseLines(_, _, _)
ParseLines(lines, i, headers) ==
  IF i > Len(lines) THEN <<>>
  ELSE LET line   == lines[i]
           fields == CsvSplitRegex(line)
           values == [k \in 1..Len(fields) |-> ParseField(fields[k])]
           rest   == ParseLines(lines, i + 1, headers)
       IN IF Trim(line) = <<>> THEN rest
          ELSE IF Len(values) = Len(headers)
               THEN <<MakeRecord(headers, values)>> \o rest
               ELSE rest

parseCSV(csvText) ==
  LET lines   == SplitLines(Trim(csvText))
      hs      == Pieces(lines[1], {i \in 1..Len(lines[1]) : lines[1][i] = COMMA})
      headers == [i \in 1..Len(hs) |-> StripHeaderQuotes(Trim(hs[i]))]
  IN ParseLines(lines, 2, headers)

----------------------------------------------------------------------------
(* Number and date parsing of the import functions                         *)

Digits == {"0", "1", "2", "3", "4", "5", "6", "7", "8", "9"}

\* A JavaScript number that is either NaN or an integer.
NaN == [nan |-> TRUE, val |-> 0]
Num(n) == [nan |-> FALSE, val |-> n]
isNaN(x) == x.nan

RECURSIVE DigitsValue(_, _)
DigitsValue(s, acc) ==
  IF s = <<>> \/ s[1] \notin Digits THEN acc
  ELSE DigitsValue(Tail(s),
                   10 * acc
                     + (CASE s[1] = "0" -> 0 [] s[1] = "1" -> 1 [] s[1] = "2" -> 2
                          [] s[1] = "3" -> 3 [] s[1] = "4" -> 4 [] s[1] = "5" -> 5
                          [] s[1] = "6" -> 6 [] s[1] = "7" -> 7 [] s[1] = "8" -> 8
                          [] s[1] = "9" -> 9))

\* The value is truthy: neither undefined, null nor the empty string.
Truthy(v) == v /= Undefined /\ v /= Null /\ v /= <<>>

\* parseFloat(v): leading white space is skipped, an optional sign and the
\* longest run of digits are read, anything after is ignored; NaN when no
\* digit is found.  (The inputs hold no decimal point and no exponent.)
parseFloat(v) ==
  LET lead == {i \in 1..Len(v) : v[i] \notin WhiteSpace}
      t    == IF lead = {} THEN <<>>
              ELSE SubSeq(v, CHOOSE i \in lead : \A j \in lead : i <= j, Len(v))
      neg  == StartsWith(t, "-")
      u    == IF neg \/ StartsWith(t, "+") THEN Tail(t) ELSE t
  IN IF u = <<>> \/ u[1] \notin Digits THEN NaN
     ELSE Num(IF neg THEN 0 - DigitsValue(u, 0) ELSE DigitsValue(u, 0))

\* new Date(v).getTime(): the inputs write a valid date as the four-digit
\* year form of the ISO format ("2024"); undefined, the empty string and a
\* word give an invalid date.
DateOf(v) ==
  IF Len(v) = 4 /\ \A i \in 1..4 : v[i] \in Digits THEN Num(DigitsValue(v, 0)) ELSE NaN

----------------------------------------------------------------------------
(* The backing collections and the store                                   *)

Kinds == {"incomes", "expenses", "appointments"}

\* The DataProvider versions of the repository.
Ctx    == "data-context.tsx"      \* src/src/contexts/data-context.tsx
Form   == "appointment-form.tsx"  \* DataProvider in src/src/components/forms/appointment-form.tsx
Recent == "part_015"              \* src/unnamed/part_015
Old    == "part_014"              \* src/unnamed/part_014

RECENT_ITEMS_LIMIT == 15

totalSnapshots == 3

MaxWrites == 1
MaxOps    == 1
MaxErrors == 1
MaxReaders == 1

VARIABLES
  variant,          \* which DataProvider runs
  db,               \* the backing collections: kind -> set of documents
  incomes, expenses, appointments,   \* the in-memory lists (useState)
  totalRevenue, totalExpenses, totalProfit,
  loading,
  snapDue,          \* kind -> a snapshot (or an error) of the kind's query is due
  listening,        \* kind -> the kind's listeners have not been ended by an error
  delivered,        \* kind -> a first snapshot has been put in the in-memory list
  loadedSnapshots,  \* the counter of checkAllLoaded
  initPc,           \* where the initial-load promises stand
  firstResolved,    \* kind -> the wait-for-first-snapshot promise has resolved
  fetchedIncomes,   \* what fetchAllForTotals read from incomes
  writes,           \* single-record calls made so far
  page,             \* the state of the data-management page
  ops,              \* the bulk calls in flight
  opCount,          \* bulk calls started so far
  toast,            \* the title of the notification the last step raised
  thrown,           \* the error the single-record call of the last step rejected with
  rt,               \* the codec round trip: input, text, parsed output
  active,           \* the cleanup of the provider's effect has not run
  stillSubscribed,  \* kinds with a listener the cleanup left subscribed
  dash,             \* the insight state of the dashboard page
  appointmentForm   \* the appointment form: its fields, its write in flight

storeVars == <<variant, db, incomes, expenses, appointments, totalRevenue, totalExpenses,
               totalProfit, loading, snapDue, listening, delivered, loadedSnapshots,
               initPc, firstResolved, fetchedIncomes, writes>>

pageVars == <<page, ops, opCount>>

sideVars == <<active, stillSubscribed, dash, appointmentForm>>

vars == <<storeVars, pageVars, toast, thrown, rt, sideVars>>

\* toast({ title, description }); the description is kept as its parts.
Toast(title, description) == <<title, description>>

NoToast == Toast("none", <<>>)

\* The step raises no notification.
Quiet == toast' = NoToast /\ thrown' = "none"

Ids(docs) == {d.id : d \in docs}

\* The sum of amount over a set of records.
RECURSIVE SumAmount(_)
SumAmount(docs) ==
  IF docs = {} THEN 0
  ELSE LET d == CHOOSE x \in docs : TRUE IN d.amount + SumAmount(docs \ {d})

\* orderBy("date", "desc"), limit(n): the n documents with the latest dates
\* (ties broken by document id, as the query does).
RECURSIVE Latest(_, _)
Latest(docs, n) ==
  IF n = 0 \/ docs = {} THEN {}
  ELSE LET top == CHOOSE x \in docs :
                    \A y \in docs : y.date < x.date \/ (y.date = x.date /\ y.id >= x.id)
       IN {top} \cup Latest(docs \ {top}, n - 1)

List(k) == CASE k = "incomes" -> incomes [] k = "expenses" -> expenses
             [] k = "appointments" -> appointments

\* The documents the backing store holds when the provider is constructed.
SeedIncome      == [id |-> 1, source |-> <<"Shop">>, amount |-> 1500, date |-> 2024]
SeedExpense     == [id |-> 2, category |-> <<"Rent">>, amount |-> 600, date |-> 2024]
SeedAppointment == [id |-> 3, title |-> <<"Call">>, date |-> 2025, description |-> <<>>]

SeedDb == [k \in Kinds |-> CASE k = "incomes" -> {SeedIncome}
                             [] k = "expenses" -> {SeedExpense}
                             [] k = "appointments" -> {SeedAppointment}]

\* An identifier no document, list, pending batch or file holds.
UsedIds == UNION {Ids(db[k]) : k \in Kinds} \cup Ids(incomes) \cup Ids(expenses)
             \cup Ids(appointments) \cup Ids(fetchedIncomes)
             \cup UNION {o.readIds : o \in ops}
             \cup UNION {Ids(o.pre[k]) : o \in ops, k \in Kinds}

\* The provider right after its effect has run: the lists are empty, the
\* flag is set, the listeners are registered and the initial reads issued.
Constructed(v, docs) ==
  /\ variant = v
  /\ db = docs
  /\ incomes = {} /\ expenses = {} /\ appointments = {}
  /\ totalRevenue = 0 /\ totalExpenses = 0 /\ totalProfit = 0
  /\ loading = TRUE
  /\ snapDue = [k \in Kinds |-> TRUE]
  /\ listening = [k \in Kinds |-> TRUE]
  /\ delivered = [k \in Kinds |-> FALSE]
  /\ loadedSnapshots = 0
  /\ initPc = CASE v = Ctx -> "getDocs" [] v = Form -> "none" [] v = Recent -> "fetchIncomes"
                   [] v = Old -> "getDocs"
  /\ firstResolved = [k \in Kinds |-> FALSE]
  /\ fetchedIncomes = {}
  /\ writes = 0

\* The dashboard page before its first render: insights enabled, no
\* insight, no request.
NoInsight == [text |-> "null", from |-> [null |-> TRUE]]

\* defaultValues of the appointment form (the date is the day it is opened).
FormDefaults == [title |-> <<>>, date |-> 2025, description |-> <<>>]

\* The effect has run and its cleanup has not; the dashboard is not open
\* and the appointment form is untouched.
SideInit ==
  /\ active = TRUE /\ stillSubscribed = {}
  /\ appointmentForm = [values |-> FormDefaults, pending |-> <<>>]
  /\ dash = [isAiInsightEnabled |-> TRUE, financialInsight |-> NoInsight,
             insightLoading |-> FALSE, insightError |-> "null",
             inflight |-> {}, started |-> 0]

----------------------------------------------------------------------------
(* The files the user can select                                           *)

D2024 == <<"2", "0", "2", "4">>
D2025 == <<"2", "0", "2", "5">>
N600  == <<"6", "0", "0">>
N100  == <<"1", "0", "0">>

AllHeader == Join(<<<<"source">>, <<"category">>, <<"title">>, <<"amount">>, <<"date">>>>, COMMA)

CsvFileNames == {"mixed.csv", "noamount.csv", "nodate.csv", "nolabel.csv", "headeronly.csv",
                 "empty.csv", "ragged.csv", "unified.csv"}

\* parseCSV(text) of the text the FileReader hands to onload for each file.
\* mixed.csv: three rows that pass for every kind among a line with a wrong
\* field count, a row whose amount is no number, a row whose date is no
\* date and a row without labels; ragged.csv: every data line has a wrong
\* field count; unified.csv: one row of each type, a row of an unknown
\* type, a row whose date is no date and an income row with an empty amount.
ParsedCsv ==
  [f \in CsvFileNames |->
     parseCSV(CASE f = "mixed.csv" -> (Join(<< AllHeader,
              Join(<<<<"Shop">>, <<"Rent">>, <<"Call">>, N600, D2024>>, COMMA),
              Join(<<<<"Odd">>, <<"Odd">>, N100, D2024>>, COMMA),
              Join(<<<<"Gig">>, <<"Food">>, <<"Demo">>, <<"abc">>, D2024>>, COMMA),
              Join(<<<<"Gig">>, <<"Food">>, <<"Demo">>, N100, D2025>>, COMMA),
              Join(<<<<"Fair">>, <<"Fees">>, <<"Trip">>, N100, <<"soon">>>>, COMMA),
              Join(<< <<>>, <<>>, <<>>, N100, D2024>>, COMMA),
              Join(<<<<"Tips">>, <<"Post">>, <<"Sync">>, N100, D2024>>, COMMA) >>, LF))
         [] f = "noamount.csv" -> (Join(<< Join(<<<<"source">>, <<"category">>, <<"date">>>>, COMMA),
              Join(<<<<"Shop">>, <<"Rent">>, D2024>>, COMMA) >>, LF))
         [] f = "nodate.csv" -> (Join(<< Join(<<<<"source">>, <<"category">>, <<"title">>, <<"amount">>>>, COMMA),
              Join(<<<<"Shop">>, <<"Rent">>, <<"Call">>, N100>>, COMMA) >>, LF))
         [] f = "nolabel.csv" -> (Join(<< Join(<<<<"amount">>, <<"date">>>>, COMMA),
              Join(<<N100, D2024>>, COMMA) >>, LF))
         [] f = "headeronly.csv" -> (AllHeader \o <<LF>>)
         [] f = "empty.csv" -> <<>>
         [] f = "ragged.csv" -> (Join(<< AllHeader,
              Join(<<<<"Odd">>, <<"Odd">>, N100, D2024>>, COMMA),
              Join(<<<<"Shop">>, N600>>, COMMA) >>, LF))
         [] f = "unified.csv" -> (Join(<< Join(<<<<"type">>, <<"date">>, <<"amount">>, <<"source">>,
              <<"category">>, <<"title">>, <<"description">>>>, COMMA),
              Join(<<<<"income">>, D2024, <<"1", "5", "0", "0">>, <<"Shop">>, <<>>, <<>>, <<>>>>, COMMA),
              Join(<<<<"unknown">>, D2024, N100, <<"Shop">>, <<>>, <<>>, <<>>>>, COMMA),
              Join(<<<<"expense">>, D2024, N600, <<>>, <<"Rent">>, <<>>, <<>>>>, COMMA),
              Join(<<<<"expense">>, <<"soon">>, N600, <<>>, <<"Rent">>, <<>>, <<>>>>, COMMA),
              Join(<<<<"appointment">>, D2025, <<>>, <<>>, <<>>, <<"Call">>, <<>>>>, COMMA),
              Join(<<<<"income">>, D2025, <<>>, <<"Gift">>, <<>>, <<>>, <<>>>>, COMMA) >>, LF)))]

\* The files the user picks for each input: the unified file for the
\* unified input, every other file for the single-kind inputs.
CsvSelections(type) ==
  IF type = "all_unified" THEN CsvFileNames ELSE CsvFileNames \ {"unified.csv"}

\* A JSON value that is not an array (an object, a string, a number, null)
\* is written as a marker no array of records equals.
JsonObject == << [object |-> TRUE] >>

JsonFileNames == {"export.json", "partial.json", "noarray.json"}

\* JSON.parse(text)
JsonParse(f) ==
  CASE f = "export.json" -> ([incomes      |-> << [id |-> 123, source |-> <<"Shop">>, amount |-> 1500, date |-> D2024] >>,
                              expenses     |-> << [id |-> 124, category |-> <<"Rent">>, amount |-> 600, date |-> D2024] >>,
                              appointments |-> << [id |-> 125, title |-> <<"Call">>, date |-> D2025] >>])
    [] f = "partial.json" -> ([incomes  |-> << [id |-> 123, source |-> <<"Shop">>, amount |-> 1500, date |-> D2024] >>,
                               expenses |-> <<>>])
    [] f = "noarray.json" -> ([incomes      |-> << [id |-> 123, source |-> <<"Shop">>, amount |-> 1500, date |-> D2024] >>,
                               expenses     |-> <<>>,
                               appointments |-> JsonObject])

----------------------------------------------------------------------------
(* The batches the import functions build                                  *)

\* A batch entry: batch.set(doc(col), data) has id 0 until the identifier is
\* generated; batch.set(doc(col, id), data) carries the given identifier.
Entry(k, id, data) == [kind |-> k, id |-> id, data |-> data]

\* A row test that does not look at the amount.
IncomeRowOkWithoutAmount(row) ==
  /\ Truthy(Get(row, <<"source">>))
  /\ ~isNaN(DateOf(Get(row, <<"date">>)))

IncomeRowOk(row) ==
  /\ Truthy(Get(row, <<"source">>))
  /\ ~isNaN(parseFloat(Get(row, <<"amount">>)))
  /\ ~isNaN(DateOf(Get(row, <<"date">>)))

ExpenseRowOk(row) ==
  /\ Truthy(Get(row, <<"category">>))
  /\ ~isNaN(parseFloat(Get(row, <<"amount">>)))
  /\ ~isNaN(DateOf(Get(row, <<"date">>)))

AppointmentRowOk(row) ==
  /\ Truthy(Get(row, <<"title">>))
  /\ ~isNaN(DateOf(Get(row, <<"date">>)))

IncomeData(row, amount) ==
  [source |-> Get(row, <<"source">>), amount |-> amount.val,
   date |-> DateOf(Get(row, <<"date">>)).val]

ExpenseData(row, amount) ==
  [category |-> Get(row, <<"category">>), amount |-> amount.val,
   date |-> DateOf(Get(row, <<"date">>)).val]

\* description: row.description || ""
AppointmentData(row) ==
  [title |-> Get(row, <<"title">>),
   description |-> IF Truthy(Get(row, <<"description">>)) THEN Get(row, <<"description">>) ELSE <<>>,
   date |-> DateOf(Get(row, <<"date">>)).val]

\* csvData.forEach(row => ...) of importIncomesFromCSV
RECURSIVE IncomesBatch(_)
IncomesBatch(rows) ==
  IF rows = <<>> THEN <<>>
  ELSE (IF IncomeRowOk(rows[1])
        THEN <<Entry("incomes", 0, IncomeData(rows[1], parseFloat(Get(rows[1], <<"amount">>))))>>
        ELSE <<>>) \o IncomesBatch(Tail(rows))

RECURSIVE ExpensesBatch(_)
ExpensesBatch(rows) ==
  IF rows = <<>> THEN <<>>
  ELSE (IF ExpenseRowOk(rows[1])
        THEN <<Entry("expenses", 0, ExpenseData(rows[1], parseFloat(Get(rows[1], <<"amount">>))))>>
        ELSE <<>>) \o ExpensesBatch(Tail(rows))

RECURSIVE AppointmentsBatch(_)
AppointmentsBatch(rows) ==
  IF rows = <<>> THEN <<>>
  ELSE (IF AppointmentRowOk(rows[1])
        THEN <<Entry("appointments", 0, AppointmentData(rows[1]))>>
        ELSE <<>>) \o AppointmentsBatch(Tail(rows))

\* One row of importAllDataFromUnifiedCSV.  (The type column of the inputs
\* is written in lower case, so toLowerCase changes nothing.)
UnifiedRow(row) ==
  LET type   == Get(row, <<"type">>)
      amount == IF Truthy(Get(row, <<"amount">>)) THEN parseFloat(Get(row, <<"amount">>)) ELSE Num(0)
  IN IF isNaN(DateOf(Get(row, <<"date">>))) THEN <<>>
     ELSE CASE type = <<"income">> ->
                 IF Truthy(Get(row, <<"source">>)) /\ ~isNaN(amount)
                 THEN <<Entry("incomes", 0, IncomeData(row, amount))>> ELSE <<>>
            [] type = <<"expense">> ->
                 IF Truthy(Get(row, <<"category">>)) /\ ~isNaN(amount)
                 THEN <<Entry("expenses", 0, ExpenseData(row, amount))>> ELSE <<>>
            [] type = <<"appointment">> ->
                 IF Truthy(Get(row, <<"title">>))
                 THEN <<Entry("appointments", 0, AppointmentData(row))>> ELSE <<>>
            [] OTHER -> <<>>

\* A loop that ends at the first row it skips.
RECURSIVE UnifiedBatchStopping(_)
UnifiedBatchStopping(rows) ==
  IF rows = <<>> \/ UnifiedRow(rows[1]) = <<>> THEN <<>>
  ELSE UnifiedRow(rows[1]) \o UnifiedBatchStopping(Tail(rows))

RECURSIVE UnifiedBatch(_)
UnifiedBatch(rows) ==
  IF rows = <<>> THEN <<>> ELSE UnifiedRow(rows[1]) \o UnifiedBatch(Tail(rows))

\* doc(col) in data-context.tsx and part_015, doc(col, id || undefined) in
\* appointment-form.tsx (every record of the input files has an id).
JsonDocId(v, item) == IF v = Form THEN item.id ELSE 0

JsonIncome(v, item) ==
  Entry("incomes", JsonDocId(v, item),
        [source |-> item.source, amount |-> item.amount, date |-> DateOf(item.date).val])

JsonExpense(v, item) ==
  Entry("expenses", JsonDocId(v, item),
        [category |-> item.category, amount |-> item.amount, date |-> DateOf(item.date).val])

\* description: item.description || ""
\* part_014 writes { ...appointmentData, date }; the later versions add
\* description: item.description || "".
JsonAppointment(v, item) ==
  Entry("appointments", JsonDocId(v, item),
        IF v = Old
        THEN [key \in DOMAIN item \ {"id"} |->
                IF key = "date" THEN DateOf(item.date).val ELSE item[key]]
        ELSE [title |-> item.title, date |-> DateOf(item.date).val,
              description |-> IF "description" \in DOMAIN item /\ Truthy(item.description)
                              THEN item.description ELSE <<>>])

\* The addBatch of importAllData.
JsonBatch(v, data) ==
  [i \in 1..Len(data.incomes) |-> JsonIncome(v, data.incomes[i])]
    \o [i \in 1..Len(data.expenses) |-> JsonExpense(v, data.expenses[i])]
    \o [i \in 1..Len(data.appointments) |-> JsonAppointment(v, data.appointments[i])]

\* The automatic identifier of doc(col) and addDoc(col): one that nothing
\* holds.  (Any unused identifier will do; the first one from `from` on is
\* taken, so that what a call generates does not depend on when it runs.)
NewId(from, used) ==
  CHOOSE n \in from..(from + Cardinality(used)) :
    n \notin used /\ \A m \in from..(n - 1) : m \in used

\* batch.commit(): every set of the batch is applied, in order.
RECURSIVE Commit(_, _, _)
Commit(batch, docs, used) ==
  IF batch = <<>> THEN docs
  ELSE LET e   == batch[1]
           id  == IF e.id = 0 THEN NewId(21, used) ELSE e.id
           doc == [id |-> id] @@ e.data
       IN Commit(Tail(batch),
                 [docs EXCEPT ![e.kind] = {d \in @ : d.id /= id} \cup {doc}],
                 used \cup {id})

----------------------------------------------------------------------------
(* The provider's effect: snapshot listeners and the initial load          *)

\* A reduce that counts the items.
reduceCount(list) == Cardinality(list)

\* list.reduce((sum, item) => sum + item.amount, 0)
RECURSIVE reduceAmount(_)
reduceAmount(list) ==
  IF list = {} THEN 0
  ELSE LET item == CHOOSE x \in list : TRUE IN reduceAmount(list \ {item}) + item.amount

\* A setter after which every provider derives the totals from the lists.
SetListDeriving(k, docs) ==
  /\ incomes' = IF k = "incomes" THEN docs ELSE incomes
  /\ expenses' = IF k = "expenses" THEN docs ELSE expenses
  /\ appointments' = IF k = "appointments" THEN docs ELSE appointments
  /\ totalRevenue' = reduceAmount(incomes')
  /\ totalExpenses' = reduceAmount(expenses')
  /\ totalProfit' = totalRevenue' - totalExpenses'

\* setIncomes / setExpenses / setAppointments, and the totals the next
\* render derives from the lists (useMemo) in data-context.tsx and
\* appointment-form.tsx; part_015 keeps its totals in state of their own.
SetList(k, docs) ==
  /\ incomes' = IF k = "incomes" THEN docs ELSE incomes
  /\ expenses' = IF k = "expenses" THEN docs ELSE expenses
  /\ appointments' = IF k = "appointments" THEN docs ELSE appointments
  /\ IF variant /= Recent
     THEN /\ totalRevenue' = reduceAmount(incomes')
          /\ totalExpenses' = reduceAmount(expenses')
          /\ totalProfit' = totalRevenue' - totalExpenses'
     ELSE UNCHANGED <<totalRevenue, totalExpenses, totalProfit>>

\* loadedSnapshots++ ; every count above totalSnapshots behaves alike.
CountUp == IF loadedSnapshots > totalSnapshots THEN loadedSnapshots ELSE loadedSnapshots + 1

\* Promise.all([first incomes, first expenses, first appointments,
\* fetchAllForTotals()]) of part_015 has all four results.
AllInitialDone(resolved, pc) == pc \in {"fetched", "fetchFailed"} /\ \A k \in Kinds : resolved[k]

\* The loading flag after the listeners of kind k got a snapshot or an error.
LoadingAfterEvent(k, isError) ==
  CASE variant = Ctx -> loading
    [] variant = Form ->
         IF isError \/ CountUp = totalSnapshots THEN FALSE ELSE loading
    [] variant = Old -> IF isError THEN FALSE ELSE loading
    [] variant = Recent ->
         IF /\ ~AllInitialDone(firstResolved, initPc)
            /\ AllInitialDone([firstResolved EXCEPT ![k] = TRUE], initPc)
         THEN FALSE ELSE loading

\* onSnapshot(q, snapshot => ...): the listeners of kind k get a snapshot.
Deliver(k) ==
  /\ snapDue[k] /\ listening[k]
  /\ SetList(k, (IF variant = Recent /\ k \in {"incomes", "expenses"}
                 THEN Latest(db[k], RECENT_ITEMS_LIMIT)
                 ELSE db[k]))
  /\ snapDue' = [snapDue EXCEPT ![k] = FALSE]
  /\ delivered' = [delivered EXCEPT ![k] = TRUE]
  /\ loadedSnapshots' = IF variant = Form THEN CountUp ELSE loadedSnapshots
  /\ firstResolved' = IF variant = Recent THEN [firstResolved EXCEPT ![k] = TRUE] ELSE firstResolved
  /\ loading' = LoadingAfterEvent(k, FALSE)
  /\ UNCHANGED <<variant, db, listening, initPc, fetchedIncomes, writes, pageVars, rt, sideVars>>
  /\ Quiet

\* onSnapshot(q, ..., error => ...): the listeners of kind k get an error,
\* which ends them.
SnapshotError(k) ==
  /\ snapDue[k] /\ listening[k]
  /\ Cardinality({j \in Kinds : ~listening[j]}) < MaxErrors
  /\ listening' = [listening EXCEPT ![k] = FALSE]
  /\ snapDue' = [snapDue EXCEPT ![k] = FALSE]
  /\ loadedSnapshots' = IF variant = Form THEN CountUp ELSE loadedSnapshots
  /\ firstResolved' = IF variant = Recent THEN [firstResolved EXCEPT ![k] = TRUE] ELSE firstResolved
  /\ loading' = LoadingAfterEvent(k, TRUE)
  /\ UNCHANGED <<variant, db, incomes, expenses, appointments, totalRevenue, totalExpenses,
                 totalProfit, delivered, initPc, fetchedIncomes, writes, pageVars, rt, sideVars>>
  /\ Quiet

\* Promise.all(initialLoadPromises).then(...).catch(...) of data-context.tsx:
\* both branches call setLoading(false).
InitialLoadSettled ==
  /\ variant \in {Ctx, Old} /\ initPc = "getDocs"
  /\ initPc' = "settled"
  /\ loading' = FALSE
  /\ UNCHANGED <<variant, db, incomes, expenses, appointments, totalRevenue, totalExpenses,
                 totalProfit, snapDue, listening, delivered, loadedSnapshots, firstResolved,
                 fetchedIncomes, writes, pageVars, rt, sideVars>>
  /\ Quiet

\* fetchAllForTotals of part_015, first await: getDocs of all incomes.  When
\* it rejects the catch logs and the function is done.
FetchIncomes ==
  /\ variant = Recent /\ initPc = "fetchIncomes"
  /\ \/ /\ fetchedIncomes' = db["incomes"]
        /\ initPc' = "fetchExpenses"
        /\ loading' = loading
     \/ /\ fetchedIncomes' = fetchedIncomes
        /\ initPc' = "fetchFailed"
        /\ loading' = IF active /\ AllInitialDone(firstResolved, "fetchFailed") THEN FALSE ELSE loading
  /\ UNCHANGED <<variant, db, incomes, expenses, appointments, totalRevenue, totalExpenses,
                 totalProfit, snapDue, listening, delivered, loadedSnapshots, firstResolved,
                 writes, pageVars, rt, sideVars>>
  /\ Quiet

\* fetchAllForTotals, second await, `if (!active) return` and the two
\* setTotal calls.
FetchExpenses ==
  /\ variant = Recent /\ initPc = "fetchExpenses"
  /\ fetchedIncomes' = {}
  /\ \/ /\ initPc' = "fetched"
        /\ IF active
           THEN /\ totalRevenue' = reduceAmount(fetchedIncomes)
                /\ totalExpenses' = reduceAmount(db["expenses"])
                /\ totalProfit' = totalRevenue' - totalExpenses'
           ELSE UNCHANGED <<totalRevenue, totalExpenses, totalProfit>>
     \/ /\ initPc' = "fetchFailed"
        /\ UNCHANGED <<totalRevenue, totalExpenses, totalProfit>>
  /\ loading' = IF active /\ AllInitialDone(firstResolved, "fetched") THEN FALSE ELSE loading
  /\ UNCHANGED <<variant, db, incomes, expenses, appointments, snapDue, listening, delivered,
                 loadedSnapshots, firstResolved, writes, pageVars, rt, sideVars>>
  /\ Quiet

----------------------------------------------------------------------------
(* Single-record calls                                                     *)

\* A change of collection k makes a snapshot of its query due.
SnapAfter(newDb) == [k \in Kinds |-> snapDue[k] \/ (listening[k] /\ newDb[k] /= db[k])]

\* Another writer changed the collections under the bulk calls in flight.
Touched(S, actor, newDb) ==
  {[o EXCEPT !.clean = @ /\ (o.id = actor \/ newDb = db)] : o \in S}

\* The error the backing store raises when a read, a write or a commit fails.
BackendError == "unavailable"

\* A single-record call that also puts its change in the in-memory lists.
WriteOptimistic(newDb) ==
  /\ writes < MaxWrites
  /\ writes' = writes + 1
  /\ \/ /\ db' = newDb
        /\ snapDue' = SnapAfter(newDb)
        /\ ops' = Touched(ops, 0, newDb)
        /\ incomes' = newDb["incomes"]
        /\ expenses' = newDb["expenses"]
        /\ appointments' = newDb["appointments"]
     \/ UNCHANGED <<db, snapDue, ops, incomes, expenses, appointments>>
  /\ UNCHANGED <<variant, totalRevenue, totalExpenses,
                 totalProfit, loading, listening, delivered, loadedSnapshots, initPc,
                 firstResolved, fetchedIncomes, page, opCount, rt, sideVars>>
  /\ Quiet

\* A single-record call that logs the error of its write and resolves.
WriteSwallowing(newDb) ==
  /\ writes < MaxWrites
  /\ writes' = writes + 1
  /\ \/ /\ db' = newDb
        /\ snapDue' = SnapAfter(newDb)
        /\ ops' = Touched(ops, 0, newDb)
     \/ UNCHANGED <<db, snapDue, ops>>
  /\ UNCHANGED <<variant, incomes, expenses, appointments, totalRevenue, totalExpenses,
                 totalProfit, loading, listening, delivered, loadedSnapshots, initPc,
                 firstResolved, fetchedIncomes, page, opCount, rt, sideVars>>
  /\ Quiet

\* The write of a single-record call (one await of addDoc, updateDoc or
\* deleteDoc): newDb when the backing store accepts it; when it rejects,
\* nothing changes and the catch block rethrows the error to the caller.
Write(newDb) ==
  /\ writes < MaxWrites
  /\ writes' = writes + 1
  /\ \/ /\ db' = newDb
        /\ snapDue' = SnapAfter(newDb)
        /\ ops' = Touched(ops, 0, newDb)
        /\ thrown' = "none"
     \/ /\ UNCHANGED <<db, snapDue, ops>>
        /\ thrown' = BackendError
  /\ UNCHANGED <<variant, incomes, expenses, appointments, totalRevenue, totalExpenses,
                 totalProfit, loading, listening, delivered, loadedSnapshots, initPc,
                 firstResolved, fetchedIncomes, page, opCount, rt, sideVars>>
  /\ toast' = NoToast

\* updateDoc of a document that is not in the collection: the backing store
\* rejects with not-found, and the catch block rethrows.
WriteNotFound ==
  /\ writes < MaxWrites
  /\ writes' = writes + 1
  /\ thrown' = "not-found"
  /\ UNCHANGED <<variant, db, snapDue, ops, incomes, expenses, appointments, totalRevenue,
                 totalExpenses, totalProfit, loading, listening, delivered, loadedSnapshots,
                 initPc, firstResolved, fetchedIncomes, page, opCount, rt, sideVars>>
  /\ toast' = NoToast

\* What the forms submit: the amount is positive (the form schema).
IncomeForms  == {[source |-> <<"Shop">>, amount |-> 1500, date |-> 2024]}
ExpenseForms == {[category |-> <<"Food">>, amount |-> 100, date |-> 2025]}
AppointmentForms == {[title |-> <<"Demo">>, date |-> 2025, description |-> <<>>]}

AddDoc(k, data) == [db EXCEPT ![k] = @ \cup {[id |-> NewId(11, UsedIds)] @@ data}]

\* updateDoc rejects when the document does not exist.
UpdateDoc(k, id, data) == [db EXCEPT ![k] = {d \in @ : d.id /= id} \cup {[id |-> id] @@ data}]

DeleteDoc(k, id) == [db EXCEPT ![k] = {d \in @ : d.id /= id}]

addIncome == \E f \in IncomeForms : Write(AddDoc("incomes", f))

updateIncome ==
  \E d \in incomes, f \in IncomeForms :
    IF d.id \in Ids(db["incomes"]) THEN Write(UpdateDoc("incomes", d.id, [f EXCEPT !.amount = 100]))
    ELSE WriteNotFound

deleteIncome == \E d \in incomes : Write(DeleteDoc("incomes", d.id))

addExpense == \E f \in ExpenseForms : Write(AddDoc("expenses", f))

updateExpense ==
  \E d \in expenses, f \in ExpenseForms :
    IF d.id \in Ids(db["expenses"]) THEN Write(UpdateDoc("expenses", d.id, [f EXCEPT !.amount = 600]))
    ELSE WriteNotFound

deleteExpense == \E d \in expenses : Write(DeleteDoc("expenses", d.id))

\* { ...appointment, date, description: appointment.description || "" };
\* part_014 has no description line.
addAppointment ==
  \E f \in AppointmentForms :
    Write(AddDoc("appointments",
                 IF variant = Old THEN f
                 ELSE [title |-> f.title, date |-> f.date,
                       description |-> IF "description" \in DOMAIN f /\ Truthy(f.description)
                                       THEN f.description ELSE <<>>]))

----------------------------------------------------------------------------
(* The bulk calls of the store                                             *)

KindOrder == <<"incomes", "expenses", "appointments">>

SingleKindImports == {"importIncomesFromCSV", "importExpensesFromCSV", "importAppointmentsFromCSV"}

\* The kind a single-kind import replaces.
TargetKind(name) ==
  CASE name = "importIncomesFromCSV" -> "incomes"
    [] name = "importExpensesFromCSV" -> "expenses"
    [] name = "importAppointmentsFromCSV" -> "appointments"

\* The store function confirmCsvImportData calls for a type.
CsvImportFunction(type) ==
  CASE type = "incomes" -> "importIncomesFromCSV"
    [] type = "expenses" -> "importExpensesFromCSV"
    [] type = "appointments" -> "importAppointmentsFromCSV"
    [] type = "all_unified" -> "importAllDataFromUnifiedCSV"

\* Every call clearing all three collections.
DeleteKindsAll(name) == KindOrder

\* The collections the call passes to deleteCollectionBatch, in order.
DeleteKinds(name) ==
  IF name \in SingleKindImports THEN <<TargetKind(name)>> ELSE KindOrder

\* The batch the call commits after its deletes.
InsertBatch(name, data) ==
  CASE name = "importIncomesFromCSV" -> IncomesBatch(data)
    [] name = "importExpensesFromCSV" -> ExpensesBatch(data)
    [] name = "importAppointmentsFromCSV" -> AppointmentsBatch(data)
    [] name = "importAllDataFromUnifiedCSV" -> UnifiedBatch(data)
    [] name = "importAllData" -> JsonBatch(variant, data)
    [] name = "deleteAllUserData" -> <<>>

StartOp(name, data) ==
  /\ opCount' = opCount + 1
  \* The call from its entry to its first await (getDocs of the first
  \* collection).
  /\ ops' = ops \cup {[id |-> opCount + 1, name |-> name, kinds |-> DeleteKinds(name),
                        phase |-> "getDocs", data |-> data, readIds |-> {}, modified |-> {},
                        pre |-> db, clean |-> TRUE, error |-> "none"]}
  \* setLoading(true) opens every bulk function of appointment-form.tsx and
  \* importAllData of part_014; data-context.tsx and part_015 have none.
  /\ loading' = (IF variant \in {Form, Old} THEN TRUE ELSE loading)

Replace(o, new) == (ops \ {o}) \cup {new}

\* catch (error) { console.error(...); throw error; }
Rethrown(o) == [o EXCEPT !.phase = "rejected", !.error = BackendError]

\* deleteCollectionBatch, first await: getDocs(collectionRef).
OpGetDocs(o) ==
  /\ o.phase = "getDocs"
  /\ \/ ops' = Replace(o, [o EXCEPT !.phase = "commit", !.readIds = Ids(db[Head(o.kinds)])])
     \/ ops' = Replace(o, Rethrown(o))
  /\ UNCHANGED <<storeVars, page, opCount, rt, sideVars>>
  /\ Quiet

\* A commit of the deletes that removes nothing.
DeleteReadKeeping(k, readIds) == db

\* What deleteCollectionBatch's batch.commit() leaves of collection k.
DeleteRead(k, readIds) == [db EXCEPT ![k] = {d \in @ : d.id \notin readIds}]

\* A deleteAllUserData that returns after its first deleteCollectionBatch.
AfterDeleteOnce(o) ==
  IF o.name = "deleteAllUserData" THEN "resolved"
  ELSE IF Len(o.kinds) > 1 THEN "getDocs" ELSE "insert"

AfterDelete(o) ==
  IF Len(o.kinds) > 1 THEN "getDocs"
  ELSE IF o.name = "deleteAllUserData" THEN "resolved" ELSE "insert"

ChangedKinds(newDb) == {k \in Kinds : newDb[k] /= db[k]}

\* deleteCollectionBatch, second await: batch.commit() of the deletes.
OpCommitDelete(o) ==
  /\ o.phase = "commit"
  /\ \/ LET newDb == DeleteRead(Head(o.kinds), o.readIds)
        IN /\ db' = newDb
           /\ snapDue' = SnapAfter(newDb)
           /\ ops' = Touched(Replace(o, [o EXCEPT !.phase = AfterDelete(o), !.kinds = Tail(@),
                                                  !.readIds = {},
                                                  !.modified = @ \cup ChangedKinds(newDb)]),
                             o.id, newDb)
           \* setTotalRevenue(0); setTotalExpenses(0): deleteAllUserData of
           \* part_015, once its third deleteCollectionBatch has returned.
           /\ IF variant = Recent /\ o.name = "deleteAllUserData" /\ AfterDelete(o) = "resolved"
              THEN totalRevenue' = 0 /\ totalExpenses' = 0 /\ totalProfit' = 0
              ELSE UNCHANGED <<totalRevenue, totalExpenses, totalProfit>>
     \/ /\ ops' = Replace(o, Rethrown(o))
        /\ UNCHANGED <<db, snapDue, totalRevenue, totalExpenses, totalProfit>>
  /\ UNCHANGED <<variant, incomes, expenses, appointments,
                 loading, listening, delivered, loadedSnapshots, initPc,
                 firstResolved, fetchedIncomes, writes, page, opCount, rt, sideVars>>
  /\ Quiet

\* await batch.commit() of the sets.
OpCommitInsert(o) ==
  /\ o.phase = "insert"
  /\ \/ LET newDb == Commit(InsertBatch(o.name, o.data), db, UsedIds)
        IN /\ db' = newDb
           /\ snapDue' = SnapAfter(newDb)
           /\ ops' = Touched(Replace(o, [o EXCEPT !.phase = "resolved",
                                                  !.modified = @ \cup ChangedKinds(newDb)]),
                             o.id, newDb)
     \/ /\ ops' = Replace(o, Rethrown(o))
        /\ UNCHANGED <<db, snapDue>>
  /\ UNCHANGED <<variant, incomes, expenses, appointments, totalRevenue, totalExpenses,
                 totalProfit, loading, listening, delivered, loadedSnapshots, initPc,
                 firstResolved, fetchedIncomes, writes, page, opCount, rt, sideVars>>
  /\ Quiet

----------------------------------------------------------------------------
(* The data-management page                                                *)

\* dataToImportJson === null
NoJson == [null |-> TRUE]

PageInit ==
  /\ page = [csvReader |-> "none",
             csvDataToImport |-> <<>>, csvImportType |-> "null",
             isCsvImportConfirmOpen |-> FALSE, csvImportLoading |-> FALSE,
             jsonReader |-> "none", dataToImportJson |-> NoJson,
             isJsonImportConfirmOpen |-> FALSE, jsonImportLoading |-> FALSE,
             isDeleteAllConfirmOpen |-> FALSE, deleteAllLoading |-> FALSE]
  /\ ops = {}
  /\ opCount = 0
  /\ toast = NoToast
  /\ thrown = "none"

anyOperationLoading ==
  page.jsonImportLoading \/ page.deleteAllLoading \/ page.csvImportLoading \/ loading

\* The file reads in flight.
PendingReaders ==
  (IF page.csvReader = "none" THEN 0 ELSE 1) + (IF page.jsonReader = "none" THEN 0 ELSE 1)

\* The inputs, the drop zones and the buttons of the page can be used: no
\* operation is loading, and no confirmation dialog is open (a dialog is
\* modal: nothing behind it takes a click or a drop).
PageUsable ==
  /\ ~anyOperationLoading
  /\ ~(page.isJsonImportConfirmOpen \/ page.isCsvImportConfirmOpen \/ page.isDeleteAllConfirmOpen)
  /\ opCount < MaxOps

\* A header test that does not ask for the amount column.
validHeadersWithoutAmount(type, firstRow) ==
  CASE type = "incomes" ->
         Get(firstRow, <<"source">>) /= Undefined /\ Get(firstRow, <<"date">>) /= Undefined
    [] type = "expenses" ->
         Get(firstRow, <<"category">>) /= Undefined /\ Get(firstRow, <<"date">>) /= Undefined
    [] type = "appointments" ->
         Get(firstRow, <<"title">>) /= Undefined /\ Get(firstRow, <<"date">>) /= Undefined
    [] type = "all_unified" ->
         Get(firstRow, <<"type">>) /= Undefined /\ Get(firstRow, <<"date">>) /= Undefined

\* firstRow.<header> !== undefined for the headers the type requires.
validHeaders(type, firstRow) ==
  CASE type = "incomes" ->
         /\ Get(firstRow, <<"source">>) /= Undefined
         /\ Get(firstRow, <<"amount">>) /= Undefined
         /\ Get(firstRow, <<"date">>) /= Undefined
    [] type = "expenses" ->
         /\ Get(firstRow, <<"category">>) /= Undefined
         /\ Get(firstRow, <<"amount">>) /= Undefined
         /\ Get(firstRow, <<"date">>) /= Undefined
    [] type = "appointments" ->
         /\ Get(firstRow, <<"title">>) /= Undefined
         /\ Get(firstRow, <<"date">>) /= Undefined
    [] type = "all_unified" ->
         /\ Get(firstRow, <<"type">>) /= Undefined
         /\ Get(firstRow, <<"date">>) /= Undefined

\* processCsvFile up to reader.readAsText(file); isCsv is file.type ===
\* "text/csv" || file.name.endsWith(".csv").  The pending reader keeps the
\* type its onload closes over.  (The provider of data-context.tsx has no
\* unified import, so its page offers none.)
processCsvFile(isCsv, type) ==
  /\ PageUsable
  /\ page.csvReader = "none"
  /\ PendingReaders < MaxReaders
  /\ type = "all_unified" => variant /= Ctx
  /\ IF isCsv
     THEN /\ page' = [page EXCEPT !.csvReader = type]
          /\ Quiet
     ELSE /\ toast' = Toast("Invalid File Type", <<"Please upload a valid CSV file (.csv).">>)
          /\ thrown' = "none"
          /\ page' = page
  /\ UNCHANGED <<storeVars, ops, opCount, rt, sideVars>>

\* The message of the error onload throws for parsed data it does not take.
CsvRejection(type, parsedData) ==
  IF Len(parsedData) > 0
  THEN <<"Invalid CSV format for ", type, ". Missing required headers.">>
  ELSE <<"CSV file is empty or has no data rows.">>

\* An onload that asks for the headers only when there is a first row.
csvReaderOnloadAnyLength(parsedData) ==
  /\ page.csvReader /= "none"
  /\ LET type == page.csvReader
     IN IF Len(parsedData) = 0 \/ validHeaders(type, parsedData[1])
        THEN /\ page' = [page EXCEPT !.csvReader = "none",
                                     !.csvDataToImport = parsedData, !.csvImportType = type,
                                     !.isCsvImportConfirmOpen = TRUE]
             /\ Quiet
        ELSE /\ page' = [page EXCEPT !.csvReader = "none"]
             /\ toast' = Toast("CSV Import Error", CsvRejection(type, parsedData))
             /\ thrown' = "none"
  /\ UNCHANGED <<storeVars, ops, opCount, rt, sideVars>>

\* reader.onload of processCsvFile: parsedData is parseCSV of the text of
\* the file that was read.
csvReaderOnload(parsedData) ==
  /\ page.csvReader /= "none"
  /\ LET type == page.csvReader
     IN IF Len(parsedData) > 0 /\ validHeaders(type, parsedData[1])
        THEN /\ page' = [page EXCEPT !.csvReader = "none",
                                     !.csvDataToImport = parsedData, !.csvImportType = type,
                                     !.isCsvImportConfirmOpen = TRUE]
             /\ Quiet
        ELSE /\ page' = [page EXCEPT !.csvReader = "none"]
             /\ toast' = Toast("CSV Import Error", CsvRejection(type, parsedData))
             /\ thrown' = "none"
  /\ UNCHANGED <<storeVars, ops, opCount, rt, sideVars>>

\* The Cancel button of the CSV dialog.
cancelCsvImport ==
  /\ page.isCsvImportConfirmOpen
  /\ page' = [page EXCEPT !.csvDataToImport = <<>>, !.csvImportType = "null",
                          !.isCsvImportConfirmOpen = FALSE]
  /\ UNCHANGED <<storeVars, ops, opCount, rt, sideVars>>
  /\ Quiet

\* confirmCsvImportData up to the await of the store function.  The action
\* button closes the dialog whatever the handler does.
confirmCsvImportData ==
  /\ page.isCsvImportConfirmOpen
  /\ IF page.csvDataToImport /= <<>> /\ page.csvImportType /= "null"
     THEN /\ page' = [page EXCEPT !.csvImportLoading = TRUE, !.isCsvImportConfirmOpen = FALSE]
          /\ StartOp(CsvImportFunction(page.csvImportType), page.csvDataToImport)
     ELSE /\ page' = [page EXCEPT !.isCsvImportConfirmOpen = FALSE]
          /\ UNCHANGED <<ops, opCount, loading>>
  /\ UNCHANGED <<variant, db, incomes, expenses, appointments, totalRevenue, totalExpenses,
                 totalProfit, snapDue, listening, delivered, loadedSnapshots, initPc,
                 firstResolved, fetchedIncomes, writes, rt, sideVars>>
  /\ Quiet

\* processJsonFile up to reader.readAsText(file); isJson is file.type ===
\* "application/json".
processJsonFile(isJson) ==
  /\ PageUsable
  /\ page.jsonReader = "none"
  /\ PendingReaders < MaxReaders
  /\ IF isJson
     THEN /\ page' = [page EXCEPT !.jsonReader = "reading"]
          /\ Quiet
     ELSE /\ toast' = Toast("Invalid File Type", <<"Please upload a valid JSON file (.json).">>)
          /\ thrown' = "none"
          /\ page' = page
  /\ UNCHANGED <<storeVars, ops, opCount, rt, sideVars>>

\* A test that asks for the three keys and not for arrays.
validEnvelopeKeysOnly(parsedData) ==
  {"incomes", "expenses", "appointments"} \subseteq DOMAIN parsedData

\* parsedData && Array.isArray(parsedData.incomes) && Array.isArray(
\* parsedData.expenses) && Array.isArray(parsedData.appointments); a missing
\* key reads as undefined, which is no array.
validEnvelope(parsedData) ==
  \A k \in {"incomes", "expenses", "appointments"} :
    k \in DOMAIN parsedData /\ (parsedData[k] /= JsonObject)

\* reader.onload of processJsonFile: parsedData is JSON.parse of the text.
jsonReaderOnload(parsedData) ==
  /\ page.jsonReader /= "none"
  /\ IF validEnvelope(parsedData)
     THEN /\ page' = [page EXCEPT !.jsonReader = "none", !.dataToImportJson = parsedData,
                                  !.isJsonImportConfirmOpen = TRUE]
          /\ Quiet
     ELSE /\ page' = [page EXCEPT !.jsonReader = "none"]
          /\ toast' = Toast("JSON Import Error",
                          <<"Invalid JSON file format. Missing required top-level keys: incomes, expenses, appointments.">>)
          /\ thrown' = "none"
  /\ UNCHANGED <<storeVars, ops, opCount, rt, sideVars>>

\* The Cancel button of the JSON dialog.
cancelJsonImport ==
  /\ page.isJsonImportConfirmOpen
  /\ page' = [page EXCEPT !.dataToImportJson = NoJson, !.isJsonImportConfirmOpen = FALSE]
  /\ UNCHANGED <<storeVars, ops, opCount, rt, sideVars>>
  /\ Quiet

\* confirmJsonImportData up to the await of importAllData
confirmJsonImportData ==
  /\ page.isJsonImportConfirmOpen
  /\ IF page.dataToImportJson /= NoJson
     THEN /\ page' = [page EXCEPT !.jsonImportLoading = TRUE, !.isJsonImportConfirmOpen = FALSE]
          /\ StartOp("importAllData", page.dataToImportJson)
     ELSE /\ page' = [page EXCEPT !.isJsonImportConfirmOpen = FALSE]
          /\ UNCHANGED <<ops, opCount, loading>>
  /\ UNCHANGED <<variant, db, incomes, expenses, appointments, totalRevenue, totalExpenses,
                 totalProfit, snapDue, listening, delivered, loadedSnapshots, initPc,
                 firstResolved, fetchedIncomes, writes, rt, sideVars>>
  /\ Quiet

\* A delete button wired to the store function, with no dialog in between.
handleDeleteAllDataDirect ==
  /\ PageUsable
  /\ page' = [page EXCEPT !.deleteAllLoading = TRUE]
  /\ StartOp("deleteAllUserData", <<>>)
  /\ UNCHANGED <<variant, db, incomes, expenses, appointments, totalRevenue, totalExpenses,
                 totalProfit, snapDue, listening, delivered, loadedSnapshots, initPc,
                 firstResolved, fetchedIncomes, writes, rt, sideVars>>
  /\ Quiet

\* setIsDeleteAllConfirmOpen(true)
handleDeleteAllDataInitiate ==
  /\ PageUsable
  /\ page' = [page EXCEPT !.isDeleteAllConfirmOpen = TRUE]
  /\ UNCHANGED <<storeVars, ops, opCount, rt, sideVars>>
  /\ Quiet

\* The Cancel button of the delete-all dialog.
cancelDeleteAll ==
  /\ page.isDeleteAllConfirmOpen
  /\ page' = [page EXCEPT !.isDeleteAllConfirmOpen = FALSE]
  /\ UNCHANGED <<storeVars, ops, opCount, rt, sideVars>>
  /\ Quiet

\* confirmDeleteAllData up to the await of deleteAllUserData
confirmDeleteAllData ==
  /\ page.isDeleteAllConfirmOpen
  /\ page' = [page EXCEPT !.deleteAllLoading = TRUE, !.isDeleteAllConfirmOpen = FALSE]
  /\ StartOp("deleteAllUserData", <<>>)
  /\ UNCHANGED <<variant, db, incomes, expenses, appointments, totalRevenue, totalExpenses,
                 totalProfit, snapDue, listening, delivered, loadedSnapshots, initPc,
                 firstResolved, fetchedIncomes, writes, rt, sideVars>>
  /\ Quiet

----------------------------------------------------------------------------
(* The page after the store function has settled                           *)

\* The toast after the await of the confirm handlers.
SuccessToast(name) ==
  CASE name = "importAllData" ->
         Toast("JSON Import Successful", <<"Your data has been imported and replaced.">>)
    [] name = "deleteAllUserData" ->
         Toast("All Data Deleted",
               <<"All your income, expense, and appointment records have been permanently deleted.">>)
    [] name = "importAllDataFromUnifiedCSV" ->
         Toast("All Data (Unified CSV) Import Successful",
               <<"Your ", "data has", " been imported and replaced.">>)
    [] name = "importIncomesFromCSV" ->
         Toast("Incomes Import Successful",
               <<"Your ", "incomes", " data has", " been imported and replaced.">>)
    [] name = "importExpensesFromCSV" ->
         Toast("Expenses Import Successful",
               <<"Your ", "expenses", " data has", " been imported and replaced.">>)
    [] name = "importAppointmentsFromCSV" ->
         Toast("Appointments Import Successful",
               <<"Your ", "appointments", " data has", " been imported and replaced.">>)

\* The toast of the catch blocks of the confirm handlers: it is built from
\* the type alone, the caught error goes to the console.
FailureToast(name) ==
  CASE name = "importAllData" ->
         Toast("JSON Import Failed", <<"Could not import data. Please check the console.">>)
    [] name = "deleteAllUserData" ->
         Toast("Deletion Failed", <<"Could not delete all data. Please check the console.">>)
    [] OTHER ->
         Toast("CSV Import Failed",
               <<"Could not import ",
                 IF name = "importAllDataFromUnifiedCSV" THEN "all_unified" ELSE TargetKind(name),
                 " data. Please check the console.">>)

\* The confirm handler after its await: try/catch/finally.
Settle(o) ==
  /\ o.phase \in {"resolved", "rejected"}
  /\ toast' = IF o.phase = "resolved" THEN SuccessToast(o.name) ELSE FailureToast(o.name)
  /\ thrown' = "none"
  \* The finally blocks.
  /\ page' = (CASE o.name = "importAllData" ->
                     [page EXCEPT !.jsonImportLoading = FALSE, !.dataToImportJson = NoJson]
                [] o.name = "deleteAllUserData" ->
                     [page EXCEPT !.deleteAllLoading = FALSE]
                [] OTHER ->
                     [page EXCEPT !.csvImportLoading = FALSE, !.csvDataToImport = <<>>,
                                  !.csvImportType = "null"])
  /\ ops' = ops \ {o}
  /\ UNCHANGED <<storeVars, opCount, rt, sideVars>>

----------------------------------------------------------------------------
(* The codec taken alone: an input, its text, the parsed text              *)

----------------------------------------------------------------------------
(* The store and the page                                                  *)

Init ==
  /\ \E v \in {Ctx, Form, Recent} : Constructed(v, SeedDb)
  /\ PageInit /\ SideInit
  /\ rt = [pc |-> "idle", fields |-> <<>>, records |-> <<>>, text |-> <<>>, parsed |-> <<>>]

Next ==
  \/ \E k \in Kinds : Deliver(k)
  \/ \E k \in Kinds : SnapshotError(k)
  \/ InitialLoadSettled
  \/ FetchIncomes
  \/ FetchExpenses
  \/ addIncome
  \/ updateIncome
  \/ deleteIncome
  \/ addExpense
  \/ updateExpense
  \/ deleteExpense
  \/ addAppointment
  \/ \E isCsv \in BOOLEAN, type \in {"incomes", "expenses", "appointments", "all_unified"} : processCsvFile(isCsv, type)
  \/ \E f \in CsvSelections(page.csvReader) : csvReaderOnload(ParsedCsv[f])
  \/ cancelCsvImport
  \/ opCount < MaxOps /\ confirmCsvImportData
  \/ \E isJson \in BOOLEAN : processJsonFile(isJson)
  \/ \E f \in JsonFileNames : jsonReaderOnload(JsonParse(f))
  \/ cancelJsonImport
  \/ opCount < MaxOps /\ confirmJsonImportData
  \/ handleDeleteAllDataInitiate
  \/ cancelDeleteAll
  \/ opCount < MaxOps /\ confirmDeleteAllData
  \/ \E o \in ops : OpGetDocs(o)
  \/ \E o \in ops : OpCommitDelete(o)
  \/ \E o \in ops : OpCommitInsert(o)
  \/ \E o \in ops : Settle(o)

Spec == Init /\ [][Next]_vars

----------------------------------------------------------------------------
(* The provider's effect and its cleanup                                   *)

\* The function the effect returns.  All three providers unsubscribe the
\* three list listeners; appointment-form.tsx and part_015 clear `active`;
\* appointment-form.tsx also unsubscribes its three one-time listeners,
\* part_015 dropped the unsubscribe functions of the three listeners inside
\* its Promise.all and leaves them subscribed.  The provider stays mounted
\* when React runs the cleanup to re-run the effect.
Teardown ==
  /\ active
  /\ active' = FALSE
  /\ listening' = [k \in Kinds |-> FALSE]
  /\ stillSubscribed' = IF variant = Recent THEN {k \in Kinds : listening[k]} ELSE {}
  /\ UNCHANGED <<variant, db, incomes, expenses, appointments, totalRevenue, totalExpenses,
                 totalProfit, loading, snapDue, delivered, loadedSnapshots, initPc,
                 firstResolved, fetchedIncomes, writes, pageVars, rt, dash, appointmentForm>>
  /\ Quiet

\* A listener the cleanup left subscribed gets its first snapshot:
\* resolve(null), and then of Promise.all finds `active` false.
LateSnapshot(k) ==
  /\ k \in stillSubscribed /\ ~firstResolved[k]
  /\ firstResolved' = [firstResolved EXCEPT ![k] = TRUE]
  /\ UNCHANGED <<variant, db, incomes, expenses, appointments, totalRevenue, totalExpenses,
                 totalProfit, loading, snapDue, listening, delivered, loadedSnapshots, initPc,
                 fetchedIncomes, writes, pageVars, rt, sideVars>>
  /\ Quiet

LifecycleNext ==
  \/ \E k \in Kinds : Deliver(k)
  \/ \E k \in Kinds : SnapshotError(k)
  \/ InitialLoadSettled
  \/ FetchIncomes
  \/ FetchExpenses
  \/ addIncome
  \/ addExpense
  \/ addAppointment
  \/ Teardown
  \/ \E k \in Kinds : LateSnapshot(k)

LifecycleSpec == Init /\ [][LifecycleNext]_vars

----------------------------------------------------------------------------
(* The provider of part_014 under the page's JSON import                   *)

\* part_014 has the single-record calls and importAllData, no CSV import
\* and no deleteAllUserData.
OldInit ==
  /\ Constructed(Old, SeedDb) /\ PageInit /\ SideInit
  /\ rt = [pc |-> "idle", fields |-> <<>>, records |-> <<>>, text |-> <<>>, parsed |-> <<>>]

OldNext ==
  \/ \E k \in Kinds : Deliver(k)
  \/ \E k \in Kinds : SnapshotError(k)
  \/ InitialLoadSettled
  \/ addIncome
  \/ updateIncome
  \/ deleteIncome
  \/ addExpense
  \/ updateExpense
  \/ deleteExpense
  \/ addAppointment
  \/ \E isJson \in BOOLEAN : processJsonFile(isJson)
  \/ \E f \in JsonFileNames : jsonReaderOnload(JsonParse(f))
  \/ cancelJsonImport
  \/ opCount < MaxOps /\ confirmJsonImportData
  \/ \E o \in ops : OpGetDocs(o)
  \/ \E o \in ops : OpCommitDelete(o)
  \/ \E o \in ops : OpCommitInsert(o)
  \/ \E o \in ops : Settle(o)

OldSpec == OldInit /\ [][OldNext]_vars

----------------------------------------------------------------------------
(* The provider of appointment-form.tsx under the page's JSON import and   *)
(* delete-all, with the progress the runtime guarantees                    *)

FormInit ==
  /\ Constructed(Form, SeedDb) /\ PageInit /\ SideInit
  /\ rt = [pc |-> "idle", fields |-> <<>>, records |-> <<>>, text |-> <<>>, parsed |-> <<>>]

FairNext ==
  \/ \E k \in Kinds : Deliver(k)
  \/ \E k \in Kinds : SnapshotError(k)
  \/ \E isJson \in BOOLEAN : processJsonFile(isJson)
  \/ \E f \in JsonFileNames : jsonReaderOnload(JsonParse(f))
  \/ cancelJsonImport
  \/ opCount < MaxOps /\ confirmJsonImportData
  \/ handleDeleteAllDataInitiate
  \/ cancelDeleteAll
  \/ opCount < MaxOps /\ confirmDeleteAllData
  \/ \E o \in ops : OpGetDocs(o)
  \/ \E o \in ops : OpCommitDelete(o)
  \/ \E o \in ops : OpCommitInsert(o)
  \/ \E o \in ops : Settle(o)

\* A pending snapshot is delivered, a pending file read completes, an
\* awaited backend call returns and the continuation of a settled promise
\* runs; nothing obliges the user to act or the backend to fail.
FairSpec ==
  /\ FormInit
  /\ [][FairNext]_vars
  /\ \A k \in Kinds : WF_vars(Deliver(k))
  /\ WF_vars(\E f \in JsonFileNames : jsonReaderOnload(JsonParse(f)))
  /\ WF_vars(\E o \in ops : OpGetDocs(o))
  /\ WF_vars(\E o \in ops : OpCommitDelete(o))
  /\ WF_vars(\E o \in ops : OpCommitInsert(o))
  /\ WF_vars(\E o \in ops : Settle(o))

----------------------------------------------------------------------------
(* The data-management page alone, with room for a second bulk call        *)

MaxCalls == 2

PageNext ==
  \/ \E k \in Kinds : Deliver(k)
  \/ \E isCsv \in BOOLEAN, type \in {"incomes", "all_unified"} : processCsvFile(isCsv, type)
  \/ \E f \in {"mixed.csv", "unified.csv"} \cap CsvSelections(page.csvReader) :
       csvReaderOnload(ParsedCsv[f])
  \/ cancelCsvImport
  \/ opCount < MaxCalls /\ confirmCsvImportData
  \/ \E isJson \in BOOLEAN : processJsonFile(isJson)
  \/ jsonReaderOnload(JsonParse("export.json"))
  \/ cancelJsonImport
  \/ opCount < MaxCalls /\ confirmJsonImportData
  \/ handleDeleteAllDataInitiate
  \/ cancelDeleteAll
  \/ opCount < MaxCalls /\ confirmDeleteAllData
  \/ \E o \in ops : OpGetDocs(o)
  \/ \E o \in ops : OpCommitDelete(o)
  \/ \E o \in ops : OpCommitInsert(o)
  \/ \E o \in ops : Settle(o)

PageSpec == FormInit /\ [][PageNext]_vars

----------------------------------------------------------------------------
(* The appointment form over the provider of appointment-form.tsx          *)

\* The user fills the fields in; the resolver lets a title of two
\* characters or more through.
fillIn ==
  /\ appointmentForm.values = FormDefaults
  /\ \E values \in AppointmentForms \cup {[title |-> <<"Call">>, date |-> 2024, description |-> <<"Shop">>]} :
       appointmentForm' = [appointmentForm EXCEPT !.values = values]
  /\ UNCHANGED <<storeVars, pageVars, rt, active, stillSubscribed, dash>>
  /\ Quiet

\* onSubmit(values): addAppointment(values) runs up to its await of addDoc
\* and is not awaited; then the toast; then form.reset().
onSubmit ==
  /\ appointmentForm.values /= FormDefaults
  /\ appointmentForm.pending = <<>>
  /\ writes < MaxWrites
  /\ appointmentForm' = [values |-> FormDefaults, pending |-> <<appointmentForm.values>>]
  /\ toast' = Toast("Appointment Added",
                    <<appointmentForm.values.title, " on ", appointmentForm.values.date>>)
  /\ thrown' = "none"
  /\ UNCHANGED <<storeVars, pageVars, rt, active, stillSubscribed, dash>>

\* addAppointment after its await: addDoc has returned, or it has thrown and
\* the catch block rethrows into a promise nobody holds.
addAppointmentSettled ==
  /\ appointmentForm.pending /= <<>>
  /\ LET f == appointmentForm.pending[1]
         newDb == AddDoc("appointments",
                         [title |-> f.title, date |-> f.date,
                          description |-> IF Truthy(f.description) THEN f.description ELSE <<>>])
     IN \/ /\ db' = newDb
           /\ snapDue' = SnapAfter(newDb)
           /\ thrown' = "none"
        \/ /\ UNCHANGED <<db, snapDue>>
           /\ thrown' = BackendError
  /\ writes' = writes + 1
  /\ appointmentForm' = [appointmentForm EXCEPT !.pending = <<>>]
  /\ toast' = NoToast
  /\ UNCHANGED <<variant, incomes, expenses, appointments, totalRevenue, totalExpenses,
                 totalProfit, loading, listening, delivered, loadedSnapshots, initPc,
                 firstResolved, fetchedIncomes, pageVars, rt, active, stillSubscribed, dash>>

AppointmentFormNext ==
  \/ \E k \in Kinds : Deliver(k)
  \/ \E k \in Kinds : SnapshotError(k)
  \/ fillIn
  \/ onSubmit
  \/ addAppointmentSettled

AppointmentFormSpec == FormInit /\ [][AppointmentFormNext]_vars

----------------------------------------------------------------------------
(* The insight card of the dashboard page                                  *)

MaxRequests == 2

\* getMonthlyDataForInsightAggregator: income and expenses per month, the
\* last six months.
getMonthlyDataForInsightAggregator(currentIncomes, currentExpenses) ==
  LET months == {d.date : d \in currentIncomes \cup currentExpenses}
      last   == {m \in months : Cardinality({n \in months : n > m}) < 6}
  IN {[name |-> m,
       income |-> reduceAmount({d \in currentIncomes : d.date = m}),
       expenses |-> reduceAmount({d \in currentExpenses : d.date = m})] : m \in last}

\* What useData() gives the page: the flag, the lists and the totals the
\* provider derives from them.
DataViews ==
  {[loading |-> l, incomes |-> i, expenses |-> e,
    totalRevenue |-> reduceAmount(i), totalExpenses |-> reduceAmount(e),
    totalProfit |-> reduceAmount(i) - reduceAmount(e)] :
     l \in BOOLEAN, i \in SUBSET {SeedIncome}, e \in SUBSET {SeedExpense}}

\* The view the page rendered last.
CurrentView ==
  [loading |-> loading, incomes |-> incomes, expenses |-> expenses,
   totalRevenue |-> totalRevenue, totalExpenses |-> totalExpenses, totalProfit |-> totalProfit]

\* The input of a request (fetchInsight builds the same object again).
InsightInput(view) ==
  [totalRevenue |-> view.totalRevenue, totalExpenses |-> view.totalExpenses,
   totalProfit |-> view.totalProfit,
   monthlyData |-> getMonthlyDataForInsightAggregator(view.incomes, view.expenses)]

\* useMemo: null while the data is loading, else the JSON text of the input.
insightInputKey(view) == IF view.loading THEN [null |-> TRUE] ELSE InsightInput(view)

hasFinancialActivity(view) ==
  \/ view.totalRevenue > 0 \/ view.totalExpenses > 0
  \/ Cardinality(view.incomes) > 0 \/ Cardinality(view.expenses) > 0

DefaultMessage == [text |-> "Add some income and expenses to get your first financial insight!",
                   from |-> [null |-> TRUE]]

\* financialInsightFlow: the canned insight for an input of zeros without
\* monthly data, else the output of the prompt, which is made of the input.
financialInsightFlow(input) ==
  IF /\ input.totalRevenue = 0 /\ input.totalExpenses = 0 /\ input.totalProfit = 0
     /\ input.monthlyData = {}
  THEN [insight |-> [text |-> "It looks like you're just getting started", from |-> [null |-> TRUE]],
        prompted |-> FALSE]
  ELSE [insight |-> [text |-> "output", from |-> input], prompted |-> TRUE]

\* The body of the insight effect, run with the values of one render.
insightEffect(d, enabled, view) ==
  IF ~enabled
  THEN [d EXCEPT !.isAiInsightEnabled = enabled,
                 !.financialInsight =
                    [text |-> "AI insights are disabled. Click the lightbulb to enable.",
                     from |-> [null |-> TRUE]],
                 !.insightLoading = FALSE, !.insightError = "null"]
  ELSE IF ~view.loading /\ hasFinancialActivity(view)
       THEN IF ~d.insightLoading
            THEN [d EXCEPT !.isAiInsightEnabled = enabled,
                           !.insightLoading = TRUE, !.insightError = "null",
                           !.started = @ + 1,
                           !.inflight = @ \cup {[n |-> d.started + 1, input |-> InsightInput(view)]}]
            ELSE [d EXCEPT !.isAiInsightEnabled = enabled]
       ELSE IF ~view.loading
            THEN [d EXCEPT !.isAiInsightEnabled = enabled, !.financialInsight = DefaultMessage,
                           !.insightError = "null", !.insightLoading = FALSE]
            ELSE [d EXCEPT !.isAiInsightEnabled = enabled]

\* A render with new values of useData(); the effect runs when dataLoading
\* or insightInputKey changed.
DataRendered(view) ==
  /\ view /= CurrentView
  /\ loading' = view.loading
  /\ incomes' = view.incomes /\ expenses' = view.expenses
  /\ totalRevenue' = view.totalRevenue /\ totalExpenses' = view.totalExpenses
  /\ totalProfit' = view.totalProfit
  /\ dash' = IF view.loading /= loading \/ insightInputKey(view) /= insightInputKey(CurrentView)
             THEN insightEffect(dash, dash.isAiInsightEnabled, view)
             ELSE dash
  /\ dash'.started <= MaxRequests
  /\ UNCHANGED <<variant, db, appointments, snapDue, listening, delivered, loadedSnapshots,
                 initPc, firstResolved, fetchedIncomes, writes, pageVars, rt, active,
                 stillSubscribed, appointmentForm>>
  /\ Quiet

\* onClick={() => setIsAiInsightEnabled(prev => !prev)}, and the effect.
toggleAiInsight ==
  /\ dash' = insightEffect(dash, ~dash.isAiInsightEnabled, CurrentView)
  /\ dash'.started <= MaxRequests
  /\ UNCHANGED <<storeVars, pageVars, rt, active, stillSubscribed, appointmentForm>>
  /\ Quiet

\* await generateFinancialInsight(input) returns: setFinancialInsight, and
\* finally setInsightLoading(false).
fetchInsightFulfilled(r) ==
  /\ r \in dash.inflight
  /\ dash' = [dash EXCEPT !.inflight = @ \ {r},
                          !.financialInsight = financialInsightFlow(r.input).insight,
                          !.insightLoading = FALSE]
  /\ UNCHANGED <<storeVars, pageVars, rt, active, stillSubscribed, appointmentForm>>
  /\ Quiet

\* await generateFinancialInsight(input) throws: setInsightError,
\* setFinancialInsight(null), and finally setInsightLoading(false).
fetchInsightRejected(r, rateLimited) ==
  /\ r \in dash.inflight
  /\ dash' = [dash EXCEPT !.inflight = @ \ {r},
                          !.insightError = IF rateLimited THEN "rate-limited" ELSE "could not generate",
                          !.financialInsight = NoInsight,
                          !.insightLoading = FALSE]
  /\ UNCHANGED <<storeVars, pageVars, rt, active, stillSubscribed, appointmentForm>>
  /\ Quiet

\* What the card shows: the spinner, the error or the insight.
Shown(d) ==
  IF d.insightLoading /\ d.isAiInsightEnabled THEN [text |-> "spinner", from |-> [null |-> TRUE]]
  ELSE IF d.insightError /= "null" /\ d.isAiInsightEnabled
       THEN [text |-> d.insightError, from |-> [null |-> TRUE]]
       ELSE d.financialInsight

\* The page mounted over a loading provider; the stored preference is
\* either value, and the effect has run once.
DashInit ==
  /\ Constructed(Ctx, SeedDb) /\ PageInit
  /\ active = TRUE /\ stillSubscribed = {}
  /\ appointmentForm = [values |-> FormDefaults, pending |-> <<>>]
  /\ rt = [pc |-> "idle", fields |-> <<>>, records |-> <<>>, text |-> <<>>, parsed |-> <<>>]
  /\ \E enabled \in BOOLEAN :
       dash = insightEffect([isAiInsightEnabled |-> enabled, financialInsight |-> NoInsight,
                             insightLoading |-> FALSE, insightError |-> "null",
                             inflight |-> {}, started |-> 0],
                            enabled, CurrentView)

DashNext ==
  \/ \E view \in DataViews : DataRendered(view)
  \/ toggleAiInsight
  \/ \E r \in dash.inflight : fetchInsightFulfilled(r)
  \/ \E r \in dash.inflight, rateLimited \in BOOLEAN : fetchInsightRejected(r, rateLimited)

DashSpec == DashInit /\ [][DashNext]_vars

----------------------------------------------------------------------------
(* Inputs of the codec round trip                                          *)

MaxLen  == 2
MaxRecs == 2

RECURSIVE StringsUpTo(_)
StringsUpTo(n) ==
  IF n = 0 THEN {<<>>}
  ELSE LET shorter == StringsUpTo(n - 1)
       IN shorter \cup {Append(s, c) : s \in {t \in shorter : Len(t) = n - 1},
                                       c \in {"a", SP, COMMA, QUOTE, LF}}

RECURSIVE RecordLists(_, _)
RecordLists(fields, n) ==
  LET keys == {fields[i] : i \in 1..Len(fields)}
  IN IF n = 0 THEN {<<>>}
     ELSE LET shorter == RecordLists(fields, n - 1)
          IN shorter \cup {Append(l, r) : l \in {t \in shorter : Len(t) = n - 1},
                                          r \in [keys -> (StringsUpTo(MaxLen) \cup {<<"Acme", COMMA, SP, "Inc.">>, Null, Undefined})]}

CodecInit ==
  \E f \in {<< <<"f">> >>, << <<"f">>, <<"g">> >>, << <<"f", COMMA, "g">> >>} :
    \E r \in RecordLists(f, IF Len(f) = 1 THEN MaxRecs ELSE 1) :
      /\ rt = [pc |-> "input", fields |-> f, records |-> r, text |-> <<>>, parsed |-> <<>>]
      /\ Constructed(Ctx, [k \in Kinds |-> {}])
      /\ PageInit
      /\ SideInit

Serialize ==
  /\ rt.pc = "input"
  /\ rt' = [rt EXCEPT !.pc = "text", !.text = convertToCSV(rt.records, rt.fields)]
  /\ UNCHANGED <<storeVars, pageVars, sideVars>>
  /\ Quiet

Parse ==
  /\ rt.pc = "text"
  /\ rt' = [rt EXCEPT !.pc = "parsed", !.parsed = parseCSV(rt.text)]
  /\ UNCHANGED <<storeVars, pageVars, sideVars>>
  /\ Quiet

CodecNext == Serialize \/ Parse

CodecSpec == CodecInit /\ [][CodecNext]_vars

NoNewline(s) == ~Includes(s, LF)

\* C5: parseCSV(convertToCSV(records, fields)) = records whenever every
\* value is a string and no value and no field name contains a newline.
C5_RoundTrip ==
  (/\ rt.pc = "parsed"
   /\ \A i \in 1..Len(rt.fields) : NoNewline(rt.fields[i])
   /\ \A r \in 1..Len(rt.records) : \A k \in DOMAIN rt.records[r] :
        rt.records[r][k] \notin {Null, Undefined} /\ NoNewline(rt.records[r][k]))
  => rt.parsed = rt.records

----------------------------------------------------------------------------
(* Properties of the store and the page                                    *)

\* The headers a single-kind import needs in the file.
RequiredHeaders(type) ==
  CASE type = "incomes" -> {<<"source">>, <<"amount">>, <<"date">>}
    [] type = "expenses" -> {<<"category">>, <<"amount">>, <<"date">>}
    [] type = "appointments" -> {<<"title">>, <<"date">>}

\* The file read for a single-kind import lacks a header the kind needs.
LacksRequiredHeader(type, parsedData) ==
  /\ type \in Kinds
  /\ Len(parsedData) > 0
  /\ ~(RequiredHeaders(type) \subseteq DOMAIN parsedData[1])

\* Whatever the page holds for a single-kind import, and whatever a
\* single-kind import was called with, has the headers of its kind.
HeldDataHasHeaders ==
  /\ (page.csvDataToImport /= <<>> /\ page.csvImportType \in Kinds)
       => RequiredHeaders(page.csvImportType) \subseteq DOMAIN page.csvDataToImport[1]
  /\ \A o \in ops : o.name \in SingleKindImports
       => RequiredHeaders(TargetKind(o.name)) \subseteq DOMAIN o.data[1]

\* C1: when the file read for a single-kind import lacks a header its kind
\* requires, onload rejects it: the dialog stays closed, nothing is held
\* for import, no bulk call starts and every collection keeps its records;
\* so no single-kind import ever runs on data without its headers.
C1_BadHeaderRejected ==
  [][/\ \A f \in CsvFileNames :
          (LacksRequiredHeader(page.csvReader, ParsedCsv[f]) /\ csvReaderOnload(ParsedCsv[f]))
            => /\ page' = [page EXCEPT !.csvReader = "none"]
               /\ ~page'.isCsvImportConfirmOpen
               /\ ops' = ops /\ opCount' = opCount
               /\ db' = db
               /\ toast' = Toast("CSV Import Error",
                                 <<"Invalid CSV format for ", page.csvReader,
                                   ". Missing required headers.">>)
     /\ HeldDataHasHeaders']_vars

\* An incomes file without its amount column has just been rejected.
C1_Witness ==
  /\ toast = Toast("CSV Import Error",
                   <<"Invalid CSV format for ", "incomes", ". Missing required headers.">>)
  /\ ~page.isCsvImportConfirmOpen
  /\ page.csvDataToImport = <<>>
  /\ ops = {} /\ opCount = 0
  /\ db = SeedDb

\* The label field of a kind.
LabelField(k) ==
  CASE k = "incomes" -> "source" [] k = "expenses" -> "category" [] k = "appointments" -> "title"

\* The row passes the kind's presence and parse checks.
PassesChecks(k, row) ==
  /\ Get(row, <<(LabelField(k))>>) \notin {Undefined, <<>>}
  /\ k /= "appointments" => ~isNaN(parseFloat(Get(row, <<"amount">>)))
  /\ ~isNaN(DateOf(Get(row, <<"date">>)))

PassingRows(k, data) == {i \in 1..Len(data) : PassesChecks(k, data[i])}

\* C2: once a single-kind CSV import has succeeded with no other writer
\* interleaved, its collection holds none of the records it held before
\* and exactly one record per row that passes the kind's checks.
C2_ReplaceSemantics ==
  \A o \in ops :
    (o.name \in SingleKindImports /\ o.phase = "resolved" /\ o.clean)
      => LET k == TargetKind(o.name)
         IN /\ Ids(db[k]) \cap Ids(o.pre[k]) = {}
            /\ Cardinality(db[k]) = Cardinality(PassingRows(k, o.data))
            /\ \A i \in PassingRows(k, o.data) :
                 \E d \in db[k] : /\ d[LabelField(k)] = Get(o.data[i], <<(LabelField(k))>>)
                                  /\ d.date = DateOf(Get(o.data[i], <<"date">>)).val

\* Six parsed rows, three of them passing, have replaced the seed income.
C2_Witness ==
  \E o \in ops :
    /\ o.name = "importIncomesFromCSV" /\ o.phase = "resolved" /\ o.clean
    /\ Len(o.data) = 6
    /\ Cardinality(db["incomes"]) = 3
    /\ o.pre["incomes"] = {SeedIncome}

\* C3: no step of a single-kind CSV import changes the collection of
\* another kind, whether the import goes on to succeed or fails part-way.
C3_OtherKindsUntouched ==
  [][\A o \in ops :
       (o.name \in SingleKindImports /\ (OpGetDocs(o) \/ OpCommitDelete(o) \/ OpCommitInsert(o)))
         => \A j \in Kinds \ {TargetKind(o.name)} : db'[j] = db[j]]_vars

\* An incomes import failed after its delete: incomes is empty, the other
\* two collections hold what they held.
C3_Witness ==
  \E o \in ops :
    /\ o.name = "importIncomesFromCSV" /\ o.phase = "rejected"
    /\ o.modified = {"incomes"}
    /\ db["incomes"] = {}
    /\ db["expenses"] = {SeedExpense} /\ db["appointments"] = {SeedAppointment}

\* The identifiers the records of a JSON envelope carry.
EnvelopeIds(data) ==
  UNION {{data[k][i].id : i \in 1..Len(data[k])} : k \in Kinds}

\* C4: after importAllData no stored record has an identifier of the
\* source file.
C4_IdentifierRotation ==
  \A o \in ops :
    (o.name = "importAllData" /\ o.phase = "resolved")
      => \A k \in Kinds : Ids(db[k]) \cap EnvelopeIds(o.data) = {}

\* What the caller of a bulk call is given when it settles: the result, and
\* for a rejection the error, which is the one the backing store raised.
Surfaced(o) == [ok |-> o.phase = "resolved", error |-> o.error]

\* C6: when importAllData or importAllDataFromUnifiedCSV fails with some
\* but not all collections modified, what the caller is given differs from
\* what it is given on success and on a failure that modified nothing.
C6_PartialFailureDistinct ==
  \A o \in ops :
    (/\ o.name \in {"importAllData", "importAllDataFromUnifiedCSV"}
     /\ o.phase = "rejected"
     /\ o.modified /= {} /\ o.modified /= Kinds)
      => /\ Surfaced(o) /= Surfaced([o EXCEPT !.phase = "resolved", !.error = "none"])
         /\ Surfaced(o) /= Surfaced([o EXCEPT !.modified = {}])
         /\ FailureToast(o.name) /= SuccessToast(o.name)

\* C7: the loading flag is false only when every kind has had its first
\* snapshot put in the in-memory list.
C7_LoadedAfterFirstSnapshots == loading = FALSE => \A k \in Kinds : delivered[k]

\* C8: once the loading flag is false no step sets it back to true.
C8_LiveIsAbsorbing == [][loading = FALSE => loading' = FALSE]_vars

\* C9: in the providers that derive the totals, totalRevenue and
\* totalExpenses are the sums of amount over the in-memory lists and
\* totalProfit is their difference.
C9_AggregateDerivation ==
  variant \in {Ctx, Form}
    => /\ totalRevenue = SumAmount(incomes)
       /\ totalExpenses = SumAmount(expenses)
       /\ totalProfit = totalRevenue - totalExpenses

\* Incomes of 1500 and expenses of 600 and 100 are in the lists.
C9_Witness ==
  /\ variant \in {Ctx, Form}
  /\ Cardinality(expenses) = 2
  /\ totalRevenue = 1500 /\ totalExpenses = 700 /\ totalProfit = 800

\* Nothing is on its way to the store: no snapshot is due, no bulk call
\* and no file read is in flight.
Settled ==
  /\ \A k \in Kinds : ~(snapDue[k] /\ listening[k])
  /\ ops = {}
  /\ PendingReaders = 0

TotalsOfCollections ==
  /\ totalRevenue = SumAmount(db["incomes"])
  /\ totalExpenses = SumAmount(db["expenses"])
  /\ totalProfit = totalRevenue - totalExpenses

----------------------------------------------------------------------------
(* The unified import, row by row                                          *)

\* The value of the type column that stands for a kind.
TypeOfKind(k) ==
  CASE k = "incomes" -> <<"income">> [] k = "expenses" -> <<"expense">>
    [] k = "appointments" -> <<"appointment">>

DateParses(row) == ~isNaN(DateOf(Get(row, <<"date">>)))

\* The rows of type k whose date parses.
DispatchedRows(k, data) ==
  {i \in 1..Len(data) : Get(data[i], <<"type">>) = TypeOfKind(k) /\ DateParses(data[i])}

\* The record d of kind k carries the label and the date of the row.
FromRow(k, d, row) ==
  /\ d[LabelField(k)] = Get(row, <<(LabelField(k))>>)
  /\ d.date = DateOf(Get(row, <<"date">>)).val

----------------------------------------------------------------------------
(* The JSON envelope                                                       *)

\* The parsed file lacks one of the three keys or holds a value that is no
\* array under one of them.
MalformedEnvelope(parsedData) ==
  \E k \in Kinds : k \notin DOMAIN parsedData \/ parsedData[k] = JsonObject

\* Whatever the page holds for confirmation, and whatever importAllData was
\* called with, has the three keys, each an array.
HeldEnvelopeWellFormed ==
  /\ page.dataToImportJson /= NoJson => ~MalformedEnvelope(page.dataToImportJson)
  /\ \A o \in ops : o.name = "importAllData" => ~MalformedEnvelope(o.data)

\* C12: when the parsed JSON file lacks one of the keys incomes, expenses,
\* appointments, or one of them is no array, the step that reads it opens no
\* dialog, holds no data for import, starts no store call and changes no
\* collection; importAllData is only ever called with a well-formed envelope.
C12_EnvelopeRejected ==
  [][/\ \A f \in JsonFileNames :
          (MalformedEnvelope(JsonParse(f)) /\ jsonReaderOnload(JsonParse(f)))
            => /\ page' = [page EXCEPT !.jsonReader = "none"]
               /\ ~page'.isJsonImportConfirmOpen
               /\ page'.dataToImportJson = NoJson
               /\ ops' = ops /\ opCount' = opCount
               /\ db' = db
               /\ toast' = Toast("JSON Import Error",
                                <<"Invalid JSON file format. Missing required top-level keys: incomes, expenses, appointments.">>)
     /\ HeldEnvelopeWellFormed']_vars

\* A malformed file has been read and rejected: nothing is held, no dialog
\* is open, no call was made, the collections are as they were.
C12_Witness ==
  /\ toast[1] = "JSON Import Error"
  /\ page.jsonReader = "none"
  /\ ~page.isJsonImportConfirmOpen /\ page.dataToImportJson = NoJson
  /\ ops = {} /\ opCount = 0
  /\ db = SeedDb

----------------------------------------------------------------------------
(* Confirmation before a destructive call                                  *)

\* The identifiers of the records a step adds, removes or rewrites.
RecordsChanged ==
  UNION {Ids((db[k] \ db'[k]) \cup (db'[k] \ db[k])) : k \in Kinds}

\* C13: a step that invokes a bulk function of the store is the confirm
\* button of the open dialog of that very operation, called with the data
\* the dialog holds; a step that changes a collection is either a commit of
\* a bulk call so invoked or a single-record call, and a single-record call
\* changes one record at most.
C13_ConfirmationGating ==
  [][/\ opCount' /= opCount
          => \E n \in ops' :
               /\ n.id = opCount' /\ n.phase = "getDocs"
               /\ {o.id : o \in ops'} = {o.id : o \in ops} \cup {n.id}
               /\ \/ /\ page.isJsonImportConfirmOpen /\ confirmJsonImportData
                     /\ n.name = "importAllData" /\ n.data = page.dataToImportJson
                  \/ /\ page.isCsvImportConfirmOpen /\ confirmCsvImportData
                     /\ n.name = CsvImportFunction(page.csvImportType)
                     /\ n.data = page.csvDataToImport
                  \/ /\ page.isDeleteAllConfirmOpen /\ confirmDeleteAllData
                     /\ n.name = "deleteAllUserData"
     /\ {o.id : o \in ops'} \subseteq {o.id : o \in ops} \cup {opCount'}
     /\ opCount' = opCount => {o.id : o \in ops'} \subseteq {o.id : o \in ops}
     /\ db' /= db
          => \/ \E o \in ops : OpCommitDelete(o) \/ OpCommitInsert(o)
             \/ /\ writes' = writes + 1 /\ ops' \subseteq Touched(ops, 0, db')
                /\ Cardinality(RecordsChanged) <= 1]_vars

\* A bulk call confirmed in its dialog has emptied a collection.
C13_Witness ==
  \E o \in ops :
    /\ o.name = "deleteAllUserData" /\ "incomes" \in o.modified
    /\ db["incomes"] = {}
    /\ page.deleteAllLoading /\ ~page.isDeleteAllConfirmOpen

----------------------------------------------------------------------------
(* The in-memory lists follow the snapshots                                *)

\* C14: the step of a single-record call leaves the three in-memory lists
\* as they are; a list changes only in the step that delivers a snapshot of
\* its own collection, and then it holds records of that collection as it is
\* at that moment: all of them, unless the query is limited and the
\* collection holds more than the limit.
C14_NoOptimisticMutation ==
  [][/\ writes' /= writes => <<incomes, expenses, appointments>>' = <<incomes, expenses, appointments>>
     /\ \A k \in Kinds :
          List(k)' /= List(k)
            => /\ Deliver(k)
               /\ List(k)' \subseteq db[k]
               /\ (variant /= Recent \/ Cardinality(db[k]) <= RECENT_ITEMS_LIMIT)
                    => List(k)' = db[k]]_vars

\* An added expense is acknowledged and not yet in the list, which still
\* holds the earlier content of the collection.
C14_Witness ==
  /\ writes = 1
  /\ Cardinality(db["expenses"]) = 2
  /\ expenses = {SeedExpense}
  /\ snapDue["expenses"]

----------------------------------------------------------------------------
(* The text convertToCSV writes                                            *)

\* The value `Acme, Inc.`
Acme == <<"Acme", COMMA, SP, "Inc.">>

\* The string with every double quote written twice.
RECURSIVE QuotesDoubled(_)
QuotesDoubled(s) ==
  IF s = <<>> THEN <<>>
  ELSE (IF Head(s) = QUOTE THEN <<QUOTE, QUOTE>> ELSE <<Head(s)>>) \o QuotesDoubled(Tail(s))

\* What a value is to be written as.
ExpectedCell(value) ==
  IF value \in {Null, Undefined} THEN <<>>
  ELSE IF \E i \in 1..Len(value) : value[i] \in {COMMA, QUOTE, LF}
       THEN <<QUOTE>> \o QuotesDoubled(value) \o <<QUOTE>>
       ELSE value

\* The cells of a line with commas between them.
RECURSIVE ExpectedLine(_)
ExpectedLine(cells) ==
  IF Len(cells) = 0 THEN <<>>
  ELSE IF Len(cells) = 1 THEN ExpectedCell(cells[1])
  ELSE ExpectedCell(cells[1]) \o <<COMMA>> \o ExpectedLine(Tail(cells))

\* The header line and one line per record, with newlines between them.
RECURSIVE ExpectedRows(_, _)
ExpectedRows(records, fields) ==
  IF records = <<>> THEN <<>>
  ELSE <<LF>> \o ExpectedLine([i \in 1..Len(fields) |-> Head(records)[fields[i]]])
         \o ExpectedRows(Tail(records), fields)

\* C15: convertToCSV writes a value between double quotes, its own double
\* quotes doubled, exactly when it holds a comma, a double quote or a
\* newline, and unchanged otherwise; null and undefined are written as the
\* empty string; the header row follows the same rule; and `Acme, Inc.` is
\* written as "Acme, Inc." and read back by parseCSV as `Acme, Inc.`.
C15_CsvQuoting ==
  /\ rt.pc \in {"text", "parsed"}
       => rt.text = ExpectedLine(rt.fields) \o ExpectedRows(rt.records, rt.fields)
  /\ (rt.pc = "parsed" /\ rt.fields = << <<"f">> >> /\ rt.records = << [x \in {<<"f">>} |-> Acme] >>)
       => /\ rt.text = <<"f", LF, QUOTE, "Acme", COMMA, SP, "Inc.", QUOTE>>
          /\ rt.parsed = rt.records

\* `Acme, Inc.` and a value with a double quote have been written and read.
C15_Witness ==
  /\ rt.pc = "parsed" /\ rt.fields = << <<"f">> >>
  /\ Len(rt.records) = 2
  /\ rt.records[1][<<"f">>] = Acme /\ rt.records[2][<<"f">>] = <<QUOTE, "a">>
  /\ Len(rt.parsed) = 2 /\ rt.parsed[1][<<"f">>] = Acme

----------------------------------------------------------------------------
(* Bulk imports that fail part-way                                         *)

\* The unified import failed in its step for expenses (the read or the
\* commit of deleteCollectionBatch('expenses')), no other writer interleaved.
FailedAtExpenses(o) ==
  /\ o.name = "importAllDataFromUnifiedCSV" /\ o.phase = "rejected" /\ o.clean
  /\ o.kinds = <<"expenses", "appointments">>

\* C16: when the step for expenses of a unified import fails, the incomes
\* collection holds the imported income records (one per income row that
\* passes its checks, none of the old ones) and the appointments collection
\* holds exactly its pre-import records.
C16_UnifiedOrdering ==
  \A o \in ops :
    FailedAtExpenses(o)
      => /\ \A i \in DispatchedRows("incomes", o.data) :
              PassesChecks("incomes", o.data[i])
                => \E d \in db["incomes"] : FromRow("incomes", d, o.data[i])
         /\ Ids(db["incomes"]) \cap Ids(o.pre["incomes"]) = {}
         /\ db["appointments"] = o.pre["appointments"]

\* The single-kind import failed at the commit of its inserts, after its
\* delete had committed, no other writer interleaved.
FailedAtInsert(o) ==
  /\ o.name \in SingleKindImports /\ o.phase = "rejected" /\ o.clean
  /\ o.kinds = <<>>

\* C17: when the insert batch of a single-kind CSV import fails after the
\* delete batch has committed, the kind's collection is empty, the caller is
\* given the error of the backing store, and the import takes no further
\* step (no retry, no rollback).
C17_NonAtomicReplace ==
  [][\A o \in ops :
       FailedAtInsert(o)
         => /\ db[TargetKind(o.name)] = {}
            /\ Surfaced(o) = [ok |-> FALSE, error |-> BackendError]
            /\ ~(OpGetDocs(o) \/ OpCommitDelete(o) \/ OpCommitInsert(o))
            /\ o \in ops' => db' = db]_vars

\* An incomes import that had read and deleted the seed income failed at
\* its insert commit.
C17_Witness ==
  \E o \in ops :
    /\ FailedAtInsert(o) /\ o.name = "importIncomesFromCSV"
    /\ o.pre["incomes"] = {SeedIncome} /\ o.modified = {"incomes"}
    /\ Cardinality(PassingRows("incomes", o.data)) = 3
    /\ db["incomes"] = {}

----------------------------------------------------------------------------
(* Amounts                                                                 *)

\* The amount field of the row is empty or parses to no number.
AmountMissing(row) == isNaN(parseFloat(Get(row, <<"amount">>)))

\* C18: after importAllDataFromUnifiedCSV no record comes from a row of type
\* income or expense whose amount is empty or parses to no number.
C18_UnifiedRequiredFields ==
  \A o \in ops :
    (o.name = "importAllDataFromUnifiedCSV" /\ o.phase = "resolved" /\ o.clean)
      => \A k \in {"incomes", "expenses"} : \A i \in DispatchedRows(k, o.data) :
           AmountMissing(o.data[i]) => ~\E d \in db[k] : FromRow(k, d, o.data[i])

\* C19: every income record and every expense record of the backing
\* collections has an amount greater than zero.
C19_PositiveAmounts ==
  \A k \in {"incomes", "expenses"} : \A d \in db[k] : d.amount > 0

----------------------------------------------------------------------------
(* Single-record calls whose write fails                                   *)

\* The collections after the step are those before it with one new record
\* added, or with one record of an in-memory list replaced or removed.
OneRecordWritten ==
  \E k \in Kinds :
    /\ \A j \in Kinds \ {k} : db'[j] = db[j]
    /\ \/ \E d \in db'[k] : d.id \notin Ids(db[k]) /\ db'[k] = db[k] \cup {d}
       \/ \E d \in List(k) : db'[k] = {x \in db[k] : x.id /= d.id}
       \/ \E d \in List(k) : \E r \in db'[k] :
            /\ r.id = d.id /\ d.id \in Ids(db[k])
            /\ db'[k] = {x \in db[k] : x.id /= d.id} \cup {r}

\* C20: a single-record call makes one write attempt and leaves the
\* in-memory lists and the loading flag as they were; when the write fails
\* the caller is given the error and the collections are unchanged, and a
\* call that gives the caller no error has written its record.
C20_WriteFailurePropagated ==
  [][writes' /= writes
       => /\ writes' = writes + 1
          /\ <<incomes, expenses, appointments, loading>>' = <<incomes, expenses, appointments, loading>>
          /\ \/ thrown' /= "none" /\ db' = db
             \/ thrown' = "none" /\ OneRecordWritten]_vars

\* A single-record call has just been rejected by the backing store while
\* the lists were loaded: the caller holds the error.
C20_Witness ==
  /\ thrown = BackendError /\ writes = 1
  /\ db = SeedDb
  /\ incomes = {SeedIncome} /\ expenses = {SeedExpense} /\ appointments = {SeedAppointment}
  /\ loading = FALSE

----------------------------------------------------------------------------
(* Delete everything                                                       *)

\* The kinds whose deleteCollectionBatch has returned.
KindsDone(o) == {KindOrder[i] : i \in 1..(Len(KindOrder) - Len(o.kinds))}

\* C21: deleteAllUserData with no other writer interleaved: once it has
\* succeeded all three collections are empty; when the step of a kind has
\* failed, the kinds before it (in the order incomes, expenses,
\* appointments) are empty, that kind and the kinds after it hold their
\* records, and the caller is given the error.
C21_DeleteAllOrder ==
  \A o \in ops :
    (o.name = "deleteAllUserData" /\ o.clean)
      => /\ o.phase = "resolved" => \A k \in Kinds : db[k] = {}
         /\ o.phase = "rejected"
              => /\ \E i \in 1..Len(KindOrder) : o.kinds = SubSeq(KindOrder, i, Len(KindOrder))
                 /\ \A k \in KindsDone(o) : db[k] = {}
                 /\ \A k \in Kinds \ KindsDone(o) : db[k] = o.pre[k]
                 /\ Surfaced(o) = [ok |-> FALSE, error |-> BackendError]

\* deleteAllUserData failed at its step for expenses over the seed records.
C21_Witness ==
  \E o \in ops :
    /\ o.name = "deleteAllUserData" /\ o.clean /\ o.phase = "rejected"
    /\ o.kinds = <<"expenses", "appointments">>
    /\ o.pre = SeedDb
    /\ db = [SeedDb EXCEPT !["incomes"] = {}]

----------------------------------------------------------------------------
(* After the cleanup                                                       *)

\* The kinds that have a listener subscribed.
Subscribed == {k \in Kinds : listening[k]} \cup stillSubscribed

\* C22: once the cleanup of the effect has run, no listener of the effect
\* is subscribed, and no step changes the in-memory lists, the totals or
\* the loading flag.
C22_TeardownUnsubscribes ==
  [][~active
       => /\ Subscribed = {}
          /\ <<incomes, expenses, appointments, totalRevenue, totalExpenses, totalProfit, loading>>'
               = <<incomes, expenses, appointments, totalRevenue, totalExpenses, totalProfit, loading>>]_vars

----------------------------------------------------------------------------
(* Appointment descriptions                                                *)

\* C23: every appointment record of the backing collection has a
\* description field that holds a string.
C23_DescriptionIsString ==
  \A d \in db["appointments"] :
    "description" \in DOMAIN d /\ d.description \notin {Undefined, Null}

----------------------------------------------------------------------------
(* C24, C27: the insight card                                              *)

\* The store is loaded, the three totals are zero and there is no monthly
\* data.
NothingEntered ==
  /\ ~loading
  /\ totalRevenue = 0 /\ totalExpenses = 0 /\ totalProfit = 0
  /\ getMonthlyDataForInsightAggregator(incomes, expenses) = {}

\* C24: whenever the store is loaded, the three totals are zero and there
\* is no monthly data, the dashboard (insights enabled) has made no request
\* for that input and shows the get-started message; the flow, given such
\* an input, returns its canned insight without calling the model.
C24_InsightBypass ==
  (dash.isAiInsightEnabled /\ NothingEntered)
    => /\ \A r \in dash.inflight : r.input /= InsightInput(CurrentView)
       /\ Shown(dash) = DefaultMessage
       /\ ~financialInsightFlow(InsightInput(CurrentView)).prompted

\* C27: with insights enabled at most one request is in flight, and once
\* no request is in flight an insight on display that came from the
\* summarizer was generated from the totals and monthly data of the
\* current render.
C27_InsightFreshness ==
  dash.isAiInsightEnabled
    => /\ Cardinality(dash.inflight) <= 1
       /\ (~loading /\ dash.inflight = {} /\ Shown(dash).text = "output")
            => Shown(dash).from = InsightInput(CurrentView)

----------------------------------------------------------------------------
(* C25: the loading flag after a bulk operation                            *)

\* C25: in the provider whose bulk functions set the loading flag, once a
\* bulk operation has finished (resolved or rejected, its confirm handler
\* done), the loading flag eventually becomes false again.
C25_LoadingReleased == (opCount > 0 /\ ops = {}) ~> (loading = FALSE)

----------------------------------------------------------------------------
(* C26: one bulk call at a time                                            *)

\* C26: no call of a bulk function starts while another such call has not
\* yet finished (its promise neither resolved nor rejected).
C26_OneBulkAtATime ==
  [][opCount' > opCount => \A o \in ops : o.phase \in {"resolved", "rejected"}]_vars

----------------------------------------------------------------------------
(* C28: a single-kind import and a concurrent add                          *)

\* C28: when the insert batch of a single-kind CSV import commits, the
\* collection holds the imported rows only: no document that was in the
\* collection before the commit (one added after deleteCollectionBatch had
\* read the collection) is in it afterwards.
C28_ImportExact ==
  [][\A o \in ops :
        (/\ o.name \in SingleKindImports /\ o.phase = "insert"
         /\ \E n \in ops' : n.id = o.id /\ n.phase = "resolved")
          => db[TargetKind(o.name)] \cap db'[TargetKind(o.name)] = {}]_vars

----------------------------------------------------------------------------
(* C29: a CSV file without data rows                                       *)

\* C29: the data the CSV confirmation dialog holds, and the data of every
\* CSV import call, has at least one parsed row: a file that parses to no
\* row is rejected by the reader's onload.
C29_EmptyCsvRejected ==
  /\ page.isCsvImportConfirmOpen => Len(page.csvDataToImport) > 0
  /\ \A o \in ops :
       o.name \in SingleKindImports \cup {"importAllDataFromUnifiedCSV"} => Len(o.data) > 0

\* The empty file, the header-only file and the file whose data lines all
\* have a wrong field count parse to no row, and such a file has just been
\* rejected.
C29_Witness ==
  /\ \A f \in {"empty.csv", "headeronly.csv", "ragged.csv"} : ParsedCsv[f] = <<>>
  /\ toast = Toast("CSV Import Error", <<"CSV file is empty or has no data rows.">>)
  /\ ~page.isCsvImportConfirmOpen
  /\ ops = {}

----------------------------------------------------------------------------
(* C30: what the appointment form reports                                  *)

\* C30: "Appointment Added" is shown, and the form reset, only once the
\* write of addAppointment has been acknowledged, and a write that failed
\* is reported in an error notification.
C30_SuccessAfterAcknowledgement ==
  /\ toast[1] = "Appointment Added" => appointmentForm.pending = <<>>
  /\ appointmentForm.pending /= <<>> => appointmentForm.values /= FormDefaults
  /\ thrown = BackendError => toast[1] = "Error"

====
